---- MODULE Spec2Model ----
(***************************************************************************)
(* Loan helpers of the Mini App client: date arithmetic (addMonthsYmd,     *)
(* addDaysYmd), the rate-period validator                                  *)
(* (normalizeAndValidateRatePeriods, buildExpensePayloadFromForm) and the  *)
(* loan calculator (calculateLoanMetrics).                                 *)
(*                                                                         *)
(* Texts.  A date text of the form YYYY-MM-DD is modelled by the number    *)
(* YYYYMMDD (0 .. 99999999): the texts matching /^\d{4}-\d{2}-\d{2}$/ and   *)
(* these numbers correspond one to one, and the order of the numbers is    *)
(* the order JavaScript's < and localeCompare give the texts.  The empty   *)
(* text "" is EmptyText (below every date text, as "" is) and every other  *)
(* text (one that is not of the form) is OtherText.                        *)
(***************************************************************************)
EXTENDS Integers, Sequences, FiniteSets, TLC

VARIABLES
    dateFn,     \* the date helper that ran last ("none" before any ran)
    dateYmd,    \* its first argument, a text
    dateN,      \* its second argument, a number
    dateOut,    \* the text it returned
    expenseRateRows,    \* state.budget.expenseRateRows: the rate rows of the form
    loanStartInput,     \* the start date field of the mortgage / loan form
    loanMonthsInput,    \* its term field, as a number
    rateFn,     \* the rate-period operation that ran last ("none" before any)
    rateEnd,    \* the loanEnd it validated against
    rateOut,    \* what it returned or threw
    loanArgs,   \* the argument of calculateLoanMetrics
    loanFn,     \* "calculateLoanMetrics" once it ran ("none" before)
    loanOut,    \* what it returned or threw
    loanRemains,    \* the values its local remain took, period by period
    loanForm,           \* the texts of the inputs of the create-loan form
    loanRateRows,       \* state.budget.loanRateRows: the rate rows of that form
    loanCreateError,    \* the text shown in el.loanCreateError ("" when hidden)
    loanView,           \* state.budget.loanView
    loans,              \* state.budget.loans, as the ids of the loans listed
    activeLoanId,       \* state.budget.activeLoanId (0 for null)
    activeLoan,         \* state.budget.activeLoan
    activeLoanSummary,  \* state.budget.activeLoanSummary
    sent,       \* the requests the handler that ran last issued, in order
    uiOp,       \* the handler of the loan views that ran last ("none" before any)
    loanExtraForm,      \* the values of the inputs of the extra-payment form
    loanExtraPreview,   \* what el.loanExtraPreview shows
    loanScenarioResult, \* what el.loanScenarioResult shows
    loanScheduleMeta,   \* the version el.loanScheduleMeta shows (NoVersion before)
    today,              \* the date of the clock, as fmtDate(0) gives it
    storedEvents,       \* the committed events of the loan, in the store
    storedVersion,      \* the version of its schedule, in the store
    storedKeys,         \* the idempotency keys the store has seen
    requestOutcome,     \* what became of the preview or commit sent last
    keptPreview,        \* a preview run kept for comparison with later ones
    engineLoan,         \* the loan PreviewScenario is called for
    engineLog,          \* its committed events
    engineEvents,       \* the events of the scenario
    engineFn,           \* "PreviewScenario" once it ran ("none" before)
    engineOut,          \* what it returned
    loanScheduleInputs, \* the texts of el.loanSchedulePageInput / PageSizeInput
    activeTab,          \* state.budget.activeTab
    shownCards,         \* the cards of the budget screen with display ""
    renderedLoan,       \* the loan renderLoanCard drew last (0 before)
    openCalls,          \* the openLoanCard calls that have not finished
    loadingCount,       \* state.loadingCount
    loadingShowTimer,   \* state.loadingShowTimer, a timer id (0 for null)
    loaderShown,        \* el.globalLoader has the class "show"
    loadingVisibleAt,   \* state.loadingVisibleAt: 0, or 1 for the time of a showLoader
    timers,             \* the timers of the loader that are pending
    calls,              \* the api / apiLoanCreate calls started and not settled
    searchInput,        \* inputEl.value of a search box
    searchTimer,        \* its debounce timer is pending
    searchCalls,        \* the queries sent and not answered
    searchResult,       \* what resultEl shows
    searchIssued,       \* the query the box acted on last
    budgetStep,         \* state.budget.step
    nextCalls,          \* the budgetNextBtn handlers waiting for api()
    onboardingCompleted \* state.budget.onboardingCompleted

dateVars == <<dateFn, dateYmd, dateN, dateOut>>
rateVars == <<expenseRateRows, loanStartInput, loanMonthsInput, rateFn, rateEnd, rateOut>>

loanVars == <<loanArgs, loanFn, loanOut, loanRemains>>
createVars == <<loanForm, loanRateRows, loanCreateError>>
sessionVars == <<loanView, loans, activeLoanId, activeLoan, activeLoanSummary, sent, uiOp>>
uiVars == <<createVars, sessionVars>>
cardVars == <<loanExtraForm, loanExtraPreview, loanScenarioResult, loanScheduleMeta, today,
              storedEvents, storedVersion, storedKeys, requestOutcome, keptPreview>>
engineVars == <<engineLoan, engineLog, engineEvents, engineFn, engineOut>>
viewVars == <<shownCards, renderedLoan>>
openVars == <<activeTab, openCalls>>
loaderVars == <<loadingCount, loadingShowTimer, loaderShown, loadingVisibleAt, timers, calls>>
searchVars == <<searchInput, searchTimer, searchCalls, searchResult, searchIssued>>
wizardVars == <<budgetStep, nextCalls, onboardingCompleted>>
backVars == <<loanScheduleInputs, openVars, loaderVars, searchVars, wizardVars>>
shellVars == <<viewVars, backVars>>

vars == <<dateFn, dateYmd, dateN, dateOut,
          expenseRateRows, loanStartInput, loanMonthsInput, rateFn, rateEnd, rateOut,
          loanArgs, loanFn, loanOut, loanRemains,
          loanForm, loanRateRows, loanCreateError,
          loanView, loans, activeLoanId, activeLoan, activeLoanSummary, sent, uiOp,
          loanExtraForm, loanExtraPreview, loanScenarioResult, loanScheduleMeta, today,
          storedEvents, storedVersion, storedKeys, requestOutcome, keptPreview,
          engineLoan, engineLog, engineEvents, engineFn, engineOut,
          loanScheduleInputs, activeTab, shownCards, renderedLoan, openCalls,
          loadingCount, loadingShowTimer, loaderShown, loadingVisibleAt, timers, calls,
          searchInput, searchTimer, searchCalls, searchResult, searchIssued,
          budgetStep, nextCalls, onboardingCompleted>>

(***************************************************************************)
(* Bounds of the model.                                                    *)
(***************************************************************************)
FirstYear == 2023
LastYear == 2024
MaxShift == 13
MaxRows == 2
MaxMonths == 2
MaxTerm == 12

(***************************************************************************)
(* Texts.                                                                  *)
(***************************************************************************)
EmptyText == -1
OtherText == EmptyText - 1

YmdText(y, m, d) == y * 10000 + m * 100 + d

\* /^\d{4}-\d{2}-\d{2}$/.test(text)
IsYmdForm(text) == text >= 0 /\ text <= 99999999

\* text.split("-").map(Number)
YearOf(text) == text \div 10000
MonthOf(text) == (text \div 100) % 100
DayOf(text) == text % 100

Min(a, b) == IF a <= b THEN a ELSE b

\* a % b of JavaScript: the remainder has the sign of a
JsRem(a, b) == IF a >= 0 THEN a % b ELSE 0 - ((0 - a) % b)

(***************************************************************************)
(* The JavaScript Date object, as far as the helpers use it.  A time value *)
(* is modelled by its day number (days since 1970-01-01); the helpers only *)
(* build midnight UTC values.                                              *)
(***************************************************************************)
\* day number of the civil date y-m-d (m in 1..12) in the proleptic
\* Gregorian calendar
DaysFromCivil(y, m, d) ==
    LET yy  == IF m <= 2 THEN y - 1 ELSE y
        era == yy \div 400
        yoe == yy - era * 400
        mp  == (m + 9) % 12
        doy == (153 * mp + 2) \div 5 + d - 1
        doe == yoe * 365 + yoe \div 4 - yoe \div 100 + doy
    IN  era * 146097 + doe - 719468

\* <<year, month (1..12), day>> of a day number
CivilFromDays(t) ==
    LET z   == t + 719468
        era == z \div 146097
        doe == z - era * 146097
        yoe == (doe - doe \div 1460 + doe \div 36524 - doe \div 146096) \div 365
        doy == doe - (365 * yoe + yoe \div 4 - yoe \div 100)
        mp  == (5 * doy + 2) \div 153
        d   == doy - (153 * mp + 2) \div 5 + 1
        m   == IF mp < 10 THEN mp + 3 ELSE mp - 9
        y   == yoe + era * 400 + (IF m <= 2 THEN 1 ELSE 0)
    IN  <<y, m, d>>

\* Date.UTC(year, monthIndex, day): a year 0..99 means 1900 + year; a month
\* index outside 0..11 and a day outside the month carry over
DateUTC(year, monthIndex, day) ==
    LET yr == IF year >= 0 /\ year <= 99 THEN 1900 + year ELSE year
    IN  DaysFromCivil(yr + (monthIndex \div 12), (monthIndex % 12) + 1, 1) + day - 1

GetUTCFullYear(t) == CivilFromDays(t)[1]
GetUTCMonth(t) == CivilFromDays(t)[2] - 1
GetUTCDate(t) == CivilFromDays(t)[3]

\* `${yy}-${mm}-${dd}` with mm and dd padded to two digits and yy as it is:
\* a text of the form YYYY-MM-DD only for a four-digit year
FormatYmd(t) ==
    LET yy == GetUTCFullYear(t)
    IN  IF yy >= 1000 /\ yy <= 9999
        THEN YmdText(yy, GetUTCMonth(t) + 1, GetUTCDate(t))
        ELSE OtherText

(***************************************************************************)
(* addMonthsYmd and addDaysYmd.  Date.UTC of three finite numbers is never *)
(* NaN within the range of a Date, so the isNaN returns are not taken for  *)
(* a text of the form.                                                     *)
(***************************************************************************)
\* a faulty variant of addMonthsYmd: the day is not clamped to the last day
\* of the target month
addMonthsYmdNoClamp(ymd, monthsToAdd) ==
    IF ~IsYmdForm(ymd) THEN EmptyText
    ELSE LET y == YearOf(ymd)
             m == MonthOf(ymd)
             d == DayOf(ymd)
             monthIndex  == (m - 1) + monthsToAdd
             targetYear  == y + (monthIndex \div 12)
             targetMonth == JsRem(JsRem(monthIndex, 12) + 12, 12)
         IN  FormatYmd(DateUTC(targetYear, targetMonth, d))

addMonthsYmd(ymd, monthsToAdd) ==
    IF ~IsYmdForm(ymd) THEN EmptyText
    ELSE LET y == YearOf(ymd)
             m == MonthOf(ymd)
             d == DayOf(ymd)
             monthIndex  == (m - 1) + monthsToAdd
             targetYear  == y + (monthIndex \div 12)
             targetMonth == JsRem(JsRem(monthIndex, 12) + 12, 12)
             lastDay     == GetUTCDate(DateUTC(targetYear, targetMonth + 1, 0))
             day         == Min(d, lastDay)
         IN  FormatYmd(DateUTC(targetYear, targetMonth, day))

\* a faulty variant of addDaysYmd: the month is passed to Date.UTC as it is
\* written (1..12) instead of as an index (0..11)
addDaysYmdMonthOff(ymd, daysToAdd) ==
    IF ~IsYmdForm(ymd) THEN EmptyText
    ELSE FormatYmd(DateUTC(YearOf(ymd), MonthOf(ymd), DayOf(ymd)) + daysToAdd)

addDaysYmd(ymd, daysToAdd) ==
    IF ~IsYmdForm(ymd) THEN EmptyText
    ELSE LET y == YearOf(ymd)
             m == MonthOf(ymd)
             d == DayOf(ymd)
             dt == DateUTC(y, m - 1, d)
         IN  FormatYmd(dt + daysToAdd)

\* addDaysYmd(ymd, days) || ymd
addDaysYmdSafe(ymd, days) ==
    IF addDaysYmd(ymd, days) = EmptyText THEN ymd ELSE addDaysYmd(ymd, days)

(***************************************************************************)
(* The calendar, stated independently of the Date object: what the date    *)
(* helpers are compared with.                                              *)
(***************************************************************************)
IsLeapYear(y) == (y % 4 = 0 /\ y % 100 # 0) \/ y % 400 = 0

DaysInMonth(y, m) ==
    IF m = 2 THEN (IF IsLeapYear(y) THEN 29 ELSE 28)
    ELSE IF m \in {4, 6, 9, 11} THEN 30 ELSE 31

IsCalendarDate(text) ==
    /\ IsYmdForm(text)
    /\ MonthOf(text) \in 1..12
    /\ DayOf(text) >= 1
    /\ DayOf(text) <= DaysInMonth(YearOf(text), MonthOf(text))

CalendarNextDay(text) ==
    LET y == YearOf(text)
        m == MonthOf(text)
        d == DayOf(text)
    IN  IF d < DaysInMonth(y, m) THEN YmdText(y, m, d + 1)
        ELSE IF m < 12 THEN YmdText(y, m + 1, 1)
        ELSE YmdText(y + 1, 1, 1)

RECURSIVE CalendarNextDayTimes(_, _)
CalendarNextDayTimes(text, k) ==
    IF k = 0 THEN text ELSE CalendarNextDayTimes(CalendarNextDay(text), k - 1)

CalendarAddMonths(text, n) ==
    LET total == YearOf(text) * 12 + (MonthOf(text) - 1) + n
        ty == total \div 12
        tm == (total % 12) + 1
    IN  YmdText(ty, tm, Min(DayOf(text), DaysInMonth(ty, tm)))

(***************************************************************************)
(* Rate rows.  A row of the form is [annual_rate, start_date, end_date]:   *)
(* the rate as the text of its input, the dates as texts.  A parsed number *)
(* is kept in hundredths of a percent (the rate input steps by 0.01).      *)
(***************************************************************************)
\* Number(annualRaw.replace(",", ".")): [finite, value]
RateNumber(annualRaw) ==
    CASE annualRaw = ""      -> [finite |-> TRUE, value |-> 0]
      [] annualRaw = "-0,5"  -> [finite |-> TRUE, value |-> 0 - 50]
      [] annualRaw = "0"     -> [finite |-> TRUE, value |-> 0]
      [] annualRaw = "7,5"   -> [finite |-> TRUE, value |-> 750]
      [] annualRaw = "12"    -> [finite |-> TRUE, value |-> 1200]
      [] annualRaw = "100"   -> [finite |-> TRUE, value |-> 10000]
      [] annualRaw = "100.5" -> [finite |-> TRUE, value |-> 10050]
      [] OTHER               -> [finite |-> FALSE, value |-> 0]

\* a faulty variant of RowError: start_date and end_date are not compared
RowErrorNoOrder(row) ==
    IF row.annual_rate = "" THEN "rate-missing"
    ELSE IF row.start_date = EmptyText \/ row.end_date = EmptyText THEN "dates-missing"
    ELSE IF ~RateNumber(row.annual_rate).finite \/ RateNumber(row.annual_rate).value < 0
         THEN "rate-invalid"
    ELSE "ok"

\* the check of one row inside rows.map: the error it throws, or "ok"
RowError(row) ==
    IF row.annual_rate = "" THEN "rate-missing"
    ELSE IF row.start_date = EmptyText \/ row.end_date = EmptyText THEN "dates-missing"
    ELSE IF ~RateNumber(row.annual_rate).finite \/ RateNumber(row.annual_rate).value < 0
         THEN "rate-invalid"
    ELSE IF row.start_date > row.end_date THEN "start-after-end"
    ELSE "ok"

\* { annual_rate: annualRate, start_date: startRaw, end_date: endRaw }
ParsedRow(row) ==
    [annual_rate |-> RateNumber(row.annual_rate).value,
     start_date |-> row.start_date,
     end_date |-> row.end_date]

\* .sort((a, b) => a.start_date.localeCompare(b.start_date)): a stable sort
RECURSIVE InsertByStart(_, _)
InsertByStart(row, sorted) ==
    IF sorted = <<>> THEN <<row>>
    ELSE IF row.start_date < Head(sorted).start_date THEN <<row>> \o sorted
    ELSE <<Head(sorted)>> \o InsertByStart(row, Tail(sorted))

RECURSIVE SortByStart(_)
SortByStart(rows) ==
    IF rows = <<>> THEN <<>>
    ELSE InsertByStart(rows[Len(rows)], SortByStart(SubSeq(rows, 1, Len(rows) - 1)))

Thrown(kind, from, to) ==
    [status |-> "thrown", error |-> kind, from |-> from, to |-> to, periods |-> <<>>]

Returned(periods) ==
    [status |-> "returned", error |-> "", from |-> EmptyText, to |-> EmptyText,
     periods |-> periods]

\* parsed.forEach from index idx (1-based) on: the first overlap or gap, or
\* the prevEnd the walk ends with.  The overlap message names no dates; the
\* gap message names prevEnd and row.start_date.
RECURSIVE WalkPeriods(_, _, _)
WalkPeriods(parsed, idx, prevEnd) ==
    IF idx > Len(parsed) THEN [error |-> "", from |-> EmptyText, to |-> EmptyText,
                               prevEnd |-> prevEnd]
    ELSE LET row == parsed[idx]
             expectedStart == addDaysYmd(prevEnd, 1)
         IN  IF row.start_date < expectedStart
             THEN [error |-> "overlap", from |-> EmptyText, to |-> EmptyText,
                   prevEnd |-> prevEnd]
             ELSE IF row.start_date > expectedStart
             THEN [error |-> "gap", from |-> prevEnd, to |-> row.start_date,
                   prevEnd |-> prevEnd]
             ELSE WalkPeriods(parsed, idx + 1, row.end_date)

\* a faulty variant of HeadMissing: a first period starting on the loan start
\* counts as missing the head
HeadMissingStrict(parsed, loanStart) == parsed[1].start_date >= loanStart

\* parsed[0].start_date > loanStart
HeadMissing(parsed, loanStart) == parsed[1].start_date > loanStart

\* a faulty variant of TailMissing: the comparison is turned around
TailMissingFlipped(prevEnd, loanEnd) == prevEnd > loanEnd

\* prevEnd < loanEnd
TailMissing(prevEnd, loanEnd) == prevEnd < loanEnd

normalizeAndValidateRatePeriods(rows, loanStart, loanEnd) ==
    LET bad == {i \in 1..Len(rows) : RowError(rows[i]) # "ok"}
        firstBad == CHOOSE i \in bad : \A j \in bad : i <= j
        parsed == SortByStart([i \in 1..Len(rows) |-> ParsedRow(rows[i])])
        walk == WalkPeriods(parsed, 2, parsed[1].end_date)
    IN  IF bad # {} THEN Thrown(RowError(rows[firstBad]), EmptyText, EmptyText)
        ELSE IF Len(parsed) = 0 THEN Thrown("no-rows", EmptyText, EmptyText)
        ELSE IF HeadMissing(parsed, loanStart)
             THEN Thrown("missing-head", EmptyText, EmptyText)
        ELSE IF walk.error # "" THEN Thrown(walk.error, walk.from, walk.to)
        ELSE IF TailMissing(walk.prevEnd, loanEnd)
             THEN Thrown("missing-tail", EmptyText, loanEnd)
        ELSE Returned(parsed)

\* a faulty variant of MoneyError: the sign of the number is not checked
MoneyErrorNoSign(raw) ==
    IF raw = "" THEN "money-not-number"
    ELSE IF raw = "abc" THEN "money-not-number"
    ELSE "ok"

\* parseMoneyInput(raw): the error it throws, or "ok"
MoneyError(raw) ==
    IF raw = "" THEN "money-not-number"
    ELSE IF raw = "abc" THEN "money-not-number"
    ELSE IF raw = "0" \/ raw = "-5" THEN "money-not-positive"
    ELSE "ok"

\* rows of buildExpensePayloadFromForm after the single-row fill
FilledRows(rows, startDate, loanEnd) ==
    IF Len(rows) = 1
    THEN <<[rows[1] EXCEPT
              !.start_date = IF @ = EmptyText THEN startDate ELSE @,
              !.end_date = IF @ = EmptyText THEN loanEnd ELSE @]>>
    ELSE rows

\* a faulty variant of CopiedRows: the array holds the objects of the state
CopiedRowsShared(rows) == [rows |-> rows, shared |-> TRUE]

\* state.budget.expenseRateRows.map((row) => ({ ...row })): an array of new
\* objects with the fields of the rows
CopiedRows(rows) == [rows |-> rows, shared |-> FALSE]

\* the rows of the state after the single-row fill wrote into the array
\* buildExpensePayloadFromForm works on
RowsLeft(stateRows, work, written) == IF work.shared THEN written ELSE stateRows

\* state.budget.expenseRateRows after buildExpensePayloadFromForm (nothing
\* is written when it throws before the fill)
ExpenseRowsAfterBuild(rows, principalRaw, startDate, months) ==
    IF \/ Len(rows) = 0
       \/ MoneyError(principalRaw) # "ok"
       \/ startDate = EmptyText
       \/ months <= 0
    THEN rows
    ELSE RowsLeft(rows, CopiedRows(rows),
                  FilledRows(rows, startDate, addMonthsYmd(startDate, months - 1)))

\* buildExpensePayloadFromForm for kind "mortgage" or "loan"; the payload it
\* returns carries the validated periods as rate_periods
buildExpensePayloadFromForm(rows, principalRaw, startDate, months) ==
    LET loanEnd == addMonthsYmd(startDate, months - 1)
    IN  IF Len(rows) = 0 THEN Thrown("no-rows", EmptyText, EmptyText)
        ELSE IF MoneyError(principalRaw) # "ok"
             THEN Thrown(MoneyError(principalRaw), EmptyText, EmptyText)
        ELSE IF startDate = EmptyText THEN Thrown("start-missing", EmptyText, EmptyText)
        ELSE IF months <= 0 THEN Thrown("months-missing", EmptyText, EmptyText)
        ELSE normalizeAndValidateRatePeriods(
                 FilledRows(rows, startDate, loanEnd), startDate, loanEnd)

(***************************************************************************)
(* Natural numbers of any size: the sequence of the base-32768 digits,     *)
(* least significant first, without leading zeros (so 0 is << >>).         *)
(***************************************************************************)
RECURSIVE BigOfInt(_)
BigOfInt(n) == IF n = 0 THEN <<>> ELSE <<n % 32768>> \o BigOfInt(n \div 32768)

RECURSIVE BigNorm(_)
BigNorm(x) ==
    IF x = <<>> THEN <<>>
    ELSE IF x[Len(x)] = 0 THEN BigNorm(SubSeq(x, 1, Len(x) - 1))
    ELSE x

RECURSIVE BigAddCarry(_, _, _)
BigAddCarry(x, y, carry) ==
    IF x = <<>> /\ y = <<>> THEN (IF carry = 0 THEN <<>> ELSE <<carry>>)
    ELSE LET a == IF x = <<>> THEN 0 ELSE Head(x)
             b == IF y = <<>> THEN 0 ELSE Head(y)
             t == a + b + carry
         IN  <<t % 32768>> \o BigAddCarry(IF x = <<>> THEN <<>> ELSE Tail(x),
                                          IF y = <<>> THEN <<>> ELSE Tail(y),
                                          t \div 32768)

BigAdd(x, y) == BigAddCarry(x, y, 0)

\* x - y for x >= y
RECURSIVE BigSubBorrow(_, _, _)
BigSubBorrow(x, y, borrow) ==
    IF x = <<>> THEN <<>>
    ELSE LET b == IF y = <<>> THEN 0 ELSE Head(y)
             t == Head(x) - b - borrow
         IN  <<t % 32768>> \o BigSubBorrow(Tail(x),
                                           IF y = <<>> THEN <<>> ELSE Tail(y),
                                           IF t < 0 THEN 1 ELSE 0)

BigSub(x, y) == BigNorm(BigSubBorrow(x, y, 0))

\* x * m for a natural m below 32768
RECURSIVE BigMulCarry(_, _, _)
BigMulCarry(x, m, carry) ==
    IF x = <<>> THEN BigOfInt(carry)
    ELSE LET t == Head(x) * m + carry
         IN  <<t % 32768>> \o BigMulCarry(Tail(x), m, t \div 32768)

BigMulSmall(x, m) == BigNorm(BigMulCarry(x, m, 0))

RECURSIVE BigMul(_, _)
BigMul(x, y) ==
    IF x = <<>> \/ y = <<>> THEN <<>>
    ELSE BigAdd(BigMulSmall(x, Head(y)), BigNorm(<<0>> \o BigMul(x, Tail(y))))

RECURSIVE BigLessFrom(_, _, _)
BigLessFrom(x, y, k) ==
    IF k = 0 THEN FALSE
    ELSE IF x[k] # y[k] THEN x[k] < y[k]
    ELSE BigLessFrom(x, y, k - 1)

BigLess(x, y) ==
    IF Len(x) # Len(y) THEN Len(x) < Len(y) ELSE BigLessFrom(x, y, Len(x))

BigLeq(x, y) == x = y \/ BigLess(x, y)

RECURSIVE BigPow(_, _)
BigPow(x, n) == IF n = 0 THEN <<1>> ELSE BigMul(BigPow(x, n - 1), x)

\* x divided by a natural d below 32768: [q, r]
RECURSIVE BigDivSmallRem(_, _)
BigDivSmallRem(x, d) ==
    IF x = <<>> THEN [q |-> <<>>, r |-> 0]
    ELSE LET hi == BigDivSmallRem(Tail(x), d)
             cur == hi.r * 32768 + Head(x)
         IN  [q |-> <<cur \div d>> \o hi.q, r |-> cur % d]

BigDivSmall(x, d) == BigNorm(BigDivSmallRem(x, d).q)

\* the largest q in lo..hi with y * q <= x
RECURSIVE QuotDigit(_, _, _, _)
QuotDigit(x, y, lo, hi) ==
    IF lo = hi THEN lo
    ELSE LET mid == (lo + hi + 1) \div 2
         IN  IF BigLeq(BigMulSmall(y, mid), x) THEN QuotDigit(x, y, mid, hi)
             ELSE QuotDigit(x, y, lo, mid - 1)

\* x divided by y # 0: [q, r] (q with leading zeros)
RECURSIVE BigDivRem(_, _)
BigDivRem(x, y) ==
    IF x = <<>> THEN [q |-> <<>>, r |-> <<>>]
    ELSE LET hi == BigDivRem(Tail(x), y)
             cur == BigNorm(<<Head(x)>> \o hi.r)
             d == IF BigLess(cur, y) THEN 0 ELSE QuotDigit(cur, y, 1, 32767)
         IN  [q |-> <<d>> \o hi.q, r |-> BigSub(cur, BigMulSmall(y, d))]

RECURSIVE Pow2(_)
Pow2(k) == IF k = 0 THEN 1 ELSE 2 * Pow2(k - 1)

\* x * 2^k and floor(x / 2^k)
BigShl(x, k) ==
    IF x = <<>> THEN <<>>
    ELSE [j \in 1..(k \div 15) |-> 0] \o BigMulSmall(x, Pow2(k % 15))

BigShr(x, k) ==
    IF k \div 15 >= Len(x) THEN <<>>
    ELSE BigDivSmall(SubSeq(x, (k \div 15) + 1, Len(x)), Pow2(k % 15))

RECURSIVE SmallBitLen(_)
SmallBitLen(n) == IF n = 0 THEN 0 ELSE 1 + SmallBitLen(n \div 2)

\* the number of binary digits of x
BitLen(x) == IF x = <<>> THEN 0 ELSE 15 * (Len(x) - 1) + SmallBitLen(x[Len(x)])

(***************************************************************************)
(* The schedule generator and the scenario engine that answer the loan     *)
(* requests.  They run behind /api/miniapp/loans and are written down here *)
(* from their design (sections 4.3 to 4.5 and 6): money is a whole number  *)
(* of the smallest unit kept (fixed point), a rate a number of hundredths  *)
(* of a percent, every amount is rounded half up to that unit.             *)
(***************************************************************************)
\* a / b to the nearest whole number, for a >= 0 and b > 0
RoundDiv(a, b) == (a \div b) + (IF 2 * (a % b) >= b THEN 1 ELSE 0)

RECURSIVE BigToInt(_)
BigToInt(x) == IF x = <<>> THEN 0 ELSE Head(x) + 32768 * BigToInt(Tail(x))

RECURSIVE Gcd(_, _)
Gcd(a, b) == IF b = 0 THEN a ELSE Gcd(b, a % b)

\* num / den to the nearest whole number, half up
BigRoundDiv(num, den) ==
    BigToInt(BigNorm(BigDivRem(BigAdd(BigMulSmall(num, 2), den), BigMulSmall(den, 2)).q))

\* P*i*a / (a - b) for i = rate/120000 and the powers a/b = (1+i)^n
AnnuityRatio(balance, rate, a, b) ==
    BigRoundDiv(BigMul(BigMul(BigOfInt(balance), BigOfInt(rate)), a),
                BigMul(BigOfInt(120000), BigSub(a, b)))

\* the annuity payment P*i*(1+i)^n / ((1+i)^n - 1) for i = rate/100/12, or
\* P/n at rate 0; 1 + i is the fraction (120000 + rate) / 120000 in lowest
\* terms
AnnuityPayment(balance, rate, months) ==
    IF rate = 0 THEN RoundDiv(balance, months)
    ELSE AnnuityRatio(balance, rate,
                      BigPow(BigOfInt((120000 + rate) \div Gcd(120000, rate)), months),
                      BigPow(BigOfInt(120000 \div Gcd(120000, rate)), months))

\* interest of one period: remaining_balance * monthly_rate
PeriodInterest(balance, rate) == RoundDiv(balance * rate, 120000)

\* the date of period k of a loan
PeriodDate(loan, k) == CalendarAddMonths(loan.first_payment_date, k - 1)

\* the payment of an ANNUITY loan, the principal part of a DIFFERENTIATED
\* one, for a balance to repay in the given number of periods
Reamortized(loan, balance, rate, months) ==
    IF months <= 0 THEN balance
    ELSE IF loan.payment_type = "ANNUITY" THEN AnnuityPayment(balance, rate, months)
    ELSE RoundDiv(balance, months)

ExtraPayment(date, amount, mode, strategy) ==
    [type |-> "EXTRA_PAYMENT", date |-> date, amount |-> amount, mode |-> mode,
     strategy |-> strategy]
RateChange(date, annualRate) ==
    [type |-> "RATE_CHANGE", date |-> date, annual_rate |-> annualRate]
Holiday(startDate, endDate) ==
    [type |-> "HOLIDAY", start_date |-> startDate, end_date |-> endDate,
     holiday_type |-> "INTEREST_ONLY"]

EventDate(e) == IF e.type = "HOLIDAY" THEN e.start_date ELSE e.date

\* events in the order of their dates, ties in the order given
RECURSIVE InsertByDate(_, _)
InsertByDate(e, sorted) ==
    IF sorted = <<>> THEN <<e>>
    ELSE IF EventDate(e) < EventDate(Head(sorted)) THEN <<e>> \o sorted
    ELSE <<Head(sorted)>> \o InsertByDate(e, Tail(sorted))

RECURSIVE SortByDate(_)
SortByDate(events) ==
    IF events = <<>> THEN <<>>
    ELSE InsertByDate(events[Len(events)], SortByDate(SubSeq(events, 1, Len(events) - 1)))

\* a faulty variant of AppliedEvent: an extra payment is added to the
\* balance
AppliedEventAdded(loan, e, j, st) ==
    IF e.type = "RATE_CHANGE"
    THEN [st EXCEPT !.rate = e.annual_rate,
                    !.ownRate = TRUE,
                    !.pay = IF loan.payment_type = "ANNUITY"
                            THEN Reamortized(loan, st.balance, e.annual_rate,
                                             st.endK - st.k + 1)
                            ELSE st.pay,
                    !.ownPay = TRUE,
                    !.used = st.used \cup {j}]
    ELSE IF e.type = "EXTRA_PAYMENT"
    THEN LET balance == st.balance + e.amount
         IN  [st EXCEPT !.balance = balance,
                        !.pay = IF e.strategy = "REDUCE_PAYMENT"
                                THEN Reamortized(loan, balance, st.rate, st.endK - st.k + 1)
                                ELSE st.pay,
                        !.ownPay = st.ownPay \/ e.strategy = "REDUCE_PAYMENT",
                        !.used = IF e.mode = "ONE_TIME" THEN st.used \cup {j} ELSE st.used]
    ELSE st

\* event j applied at the period the walk stands at: a rate change
\* re-amortizes the annuity over the periods left, an extra payment is taken
\* off the balance (at most all of it) and, with REDUCE_PAYMENT, the payment
\* is derived again over the periods left (with REDUCE_TERM the payment
\* level is kept)
AppliedEvent(loan, e, j, st) ==
    IF e.type = "RATE_CHANGE"
    THEN [st EXCEPT !.rate = e.annual_rate,
                    !.ownRate = TRUE,
                    !.pay = IF loan.payment_type = "ANNUITY"
                            THEN Reamortized(loan, st.balance, e.annual_rate,
                                             st.endK - st.k + 1)
                            ELSE st.pay,
                    !.ownPay = TRUE,
                    !.used = st.used \cup {j}]
    ELSE IF e.type = "EXTRA_PAYMENT"
    THEN LET balance == IF e.amount >= st.balance THEN 0 ELSE st.balance - e.amount
         IN  [st EXCEPT !.balance = balance,
                        !.pay = IF e.strategy = "REDUCE_PAYMENT"
                                THEN Reamortized(loan, balance, st.rate, st.endK - st.k + 1)
                                ELSE st.pay,
                        !.ownPay = st.ownPay \/ e.strategy = "REDUCE_PAYMENT",
                        !.used = IF e.mode = "ONE_TIME" THEN st.used \cup {j} ELSE st.used]
    ELSE st

\* does event j act at a period of date d: once from its date on for a rate
\* change and a ONE_TIME payment, at every period from its date on for a
\* MONTHLY payment
EventDue(e, j, st, d) ==
    /\ e.type \in {"RATE_CHANGE", "EXTRA_PAYMENT"}
    /\ e.date <= d
    /\ j \notin st.used

RECURSIVE AppliedEvents(_, _, _, _, _)
AppliedEvents(loan, events, j, st, d) ==
    IF j > Len(events) THEN st
    ELSE AppliedEvents(loan, events, j + 1,
                       IF EventDue(events[j], j, st, d)
                       THEN AppliedEvent(loan, events[j], j, st) ELSE st,
                       d)

InHoliday(events, d) ==
    \E j \in 1..Len(events) :
        /\ events[j].type = "HOLIDAY"
        /\ events[j].start_date <= d
        /\ d <= events[j].end_date

\* what a walk takes over from the schedule it is a copy of: the payment
\* level, the rate, the holidays and the extra payments of its periods
\* (nothing for the schedule of the loan itself)
NoBase == [pays |-> <<>>, rates |-> <<>>, holds |-> <<>>, extras |-> <<>>]
BaseOf(schedule) ==
    [pays |-> schedule.pays, rates |-> schedule.rates, holds |-> schedule.holds,
     extras |-> schedule.extras]

\* the state of a walk at its period, with the extra payments of the
\* copied schedule taken off and its rate and payment level where the walk's
\* own events did not set them; when the copied rate moves under a payment
\* the walk derived itself, the payment is derived again (the rate-boundary
\* rule)
AtPeriod(loan, base, st) ==
    LET extra == IF st.k <= Len(base.extras) THEN base.extras[st.k] ELSE 0
        balance == IF extra >= st.balance THEN 0 ELSE st.balance - extra
        rate == IF st.ownRate \/ st.k > Len(base.rates) THEN st.rate ELSE base.rates[st.k]
        pay == IF ~st.ownPay /\ st.k <= Len(base.pays) THEN base.pays[st.k]
               ELSE IF rate # st.rate /\ loan.payment_type = "ANNUITY"
               THEN Reamortized(loan, balance, rate, st.endK - st.k + 1)
               ELSE st.pay
    IN  [st EXCEPT !.balance = balance, !.rate = rate, !.pay = pay]

\* the walk from period st.k on.  st: k, balance (before the period), pay,
\* rate, ownPay and ownRate (set by the walk's own events), endK (the last
\* period planned), interest (paid so far), count (periods so far), payoff
\* (date of the last period), balances (before each period, after its
\* events), pays, rates, holds and extras (of each period), used (events
\* that acted once).  A holiday period collects the interest only and puts the end off
\* by one
RECURSIVE ScheduleWalk(_, _, _, _)
\* the period of date d, from the state ev the events of the period left
WalkPeriod(loan, events, base, st, d, ev) ==
    IF ev.balance = 0 THEN ev
    ELSE LET interest == PeriodInterest(ev.balance, ev.rate)
             copied == ev.k <= Len(base.holds) /\ base.holds[ev.k]
             holiday == copied \/ InHoliday(events, d)
             part == IF loan.payment_type = "ANNUITY" THEN ev.pay - interest
                     ELSE ev.pay
             principal == IF holiday THEN 0
                          ELSE IF ev.k >= ev.endK THEN ev.balance
                          ELSE IF part >= ev.balance THEN ev.balance
                          ELSE IF part < 0 THEN 0
                          ELSE part
             next == [ev EXCEPT !.k = ev.k + 1,
                                !.balance = ev.balance - principal,
                                !.endK = IF holiday /\ ~copied THEN ev.endK + 1
                                         ELSE ev.endK,
                                !.interest = ev.interest + interest,
                                !.count = ev.k,
                                !.payoff = d,
                                !.balances = Append(ev.balances, ev.balance),
                                !.pays = Append(ev.pays, ev.pay),
                                !.rates = Append(ev.rates, ev.rate),
                                !.holds = Append(ev.holds, holiday),
                                !.extras = Append(ev.extras, st.balance - ev.balance)]
         IN  IF next.balance = 0 THEN next ELSE ScheduleWalk(loan, events, base, next)

ScheduleWalk(loan, events, base, st) ==
    WalkPeriod(loan, events, base, st, PeriodDate(loan, st.k),
               AppliedEvents(loan, events, 1, AtPeriod(loan, base, st),
                             PeriodDate(loan, st.k)))

\* the schedule of a loan (base NoBase) or of a copy of a schedule, with
\* the events given folded in date order
Schedule(loan, events, base) ==
    ScheduleWalk(loan, SortByDate(events), base,
                 [k |-> 1, balance |-> loan.principal,
                  pay |-> IF base.pays = <<>>
                          THEN Reamortized(loan, loan.principal, loan.annual_rate,
                                           loan.term_months)
                          ELSE base.pays[1],
                  rate |-> loan.annual_rate,
                  ownPay |-> base.pays = <<>>, ownRate |-> base.rates = <<>>,
                  endK |-> IF base.pays = <<>> THEN loan.term_months ELSE Len(base.pays),
                  interest |-> 0, count |-> 0, payoff |-> loan.first_payment_date,
                  balances |-> <<>>, pays |-> <<>>, rates |-> <<>>, holds |-> <<>>,
                  extras |-> <<>>,
                  used |-> {}])

\* the balance of a schedule at a date: before the first period at or after
\* it (0 after the payoff)
RECURSIVE BalanceAt(_, _, _, _)
BalanceAt(loan, schedule, date, k) ==
    IF k > Len(schedule.balances) THEN 0
    ELSE IF PeriodDate(loan, k) >= date THEN schedule.balances[k]
    ELSE BalanceAt(loan, schedule, date, k + 1)

PreviewError(kind) ==
    [status |-> kind, months_diff |-> 0, interest_saving |-> 0,
     monthly_payment |-> 0, payoff_date |-> EmptyText]

\* the answer for a baseline and the scenario applied onto its copy
PreviewOutcome(loan, events, baseline, scenario) ==
    IF \E j \in 1..Len(events) :
           \/ EventDate(events[j]) < loan.first_payment_date
           \/ EventDate(events[j]) > baseline.payoff
    THEN PreviewError("EventRangeError")
    ELSE IF \E j \in 1..Len(events) :
                /\ events[j].type = "EXTRA_PAYMENT"
                /\ \/ events[j].amount <= 0
                   \/ events[j].amount >= BalanceAt(loan, baseline, events[j].date, 1)
    THEN PreviewError("AmountError")
    ELSE [status |-> "ok",
          months_diff |-> baseline.count - scenario.count,
          interest_saving |-> baseline.interest - scenario.interest,
          monthly_payment |-> scenario.pay,
          payoff_date |-> scenario.payoff]

\* the events applied onto a copy of the baseline
PreviewOnto(loan, events, baseline) ==
    PreviewOutcome(loan, events, baseline, Schedule(loan, events, BaseOf(baseline)))


\* PreviewScenario(loan_id, events[]) for a loan and its committed events:
\* the baseline is the fold of the committed events over the loan, the
\* scenario the events applied onto a copy of the baseline
PreviewScenario(loan, log, events) ==
    PreviewOnto(loan, events, Schedule(loan, log, NoBase))

(***************************************************************************)
(* JavaScript numbers.  A finite number is an IEEE 754 double:             *)
(* [sign, m, e] is sign * m * 2^e with m below 2^53 (sign 1 and m = << >>  *)
(* for 0).  Every operation gives the double nearest to the exact result,  *)
(* ties to even.  The numbers of the calculator stay far from the          *)
(* subnormal and the overflow range, which are left out.                   *)
(***************************************************************************)
FlZero == [sign |-> 1, m |-> <<>>, e |-> 0]

\* the value null
FlNull == [sign |-> 0, m |-> <<>>, e |-> 0]

\* the double nearest to sign * m * 2^e (to a little more when sticky)
FlRound(sign, m, e, sticky) ==
    LET len == BitLen(m)
        d == len - 53
        q == BigShr(m, d)
        r == BigSub(m, BigShl(q, d))
        half == BigShl(<<1>>, d - 1)
        odd == q[1] % 2 = 1
        up == BigLess(half, r) \/ (r = half /\ (sticky \/ odd))
    IN  IF m = <<>> THEN FlZero
        ELSE IF len <= 53 THEN [sign |-> sign, m |-> m, e |-> e]
        ELSE [sign |-> sign, m |-> IF up THEN BigAdd(q, <<1>>) ELSE q, e |-> e + d]

FlOfInt(n) ==
    IF n = 0 THEN FlZero
    ELSE IF n < 0 THEN [sign |-> 0 - 1, m |-> BigOfInt(0 - n), e |-> 0]
    ELSE [sign |-> 1, m |-> BigOfInt(n), e |-> 0]

FlNeg(a) == IF a.m = <<>> THEN a ELSE [a EXCEPT !.sign = 0 - a.sign]

\* a * b
FlMul(a, b) ==
    IF a.m = <<>> \/ b.m = <<>> THEN FlZero
    ELSE FlRound(a.sign * b.sign, BigMul(a.m, b.m), a.e + b.e, FALSE)

\* a + b
FlAdd(a, b) ==
    IF a.m = <<>> THEN b
    ELSE IF b.m = <<>> THEN a
    ELSE LET e == IF a.e <= b.e THEN a.e ELSE b.e
             ma == BigShl(a.m, a.e - e)
             mb == BigShl(b.m, b.e - e)
         IN  IF a.sign = b.sign THEN FlRound(a.sign, BigAdd(ma, mb), e, FALSE)
             ELSE IF ma = mb THEN FlZero
             ELSE IF BigLess(mb, ma) THEN FlRound(a.sign, BigSub(ma, mb), e, FALSE)
             ELSE FlRound(b.sign, BigSub(mb, ma), e, FALSE)

\* a - b
FlSub(a, b) == FlAdd(a, FlNeg(b))

\* a / b for b # 0
FlDiv(a, b) ==
    IF a.m = <<>> THEN FlZero
    ELSE LET k0 == 56 + BitLen(b.m) - BitLen(a.m)
             k == IF k0 < 0 THEN 0 ELSE k0
             qr == BigDivRem(BigShl(a.m, k), b.m)
         IN  FlRound(a.sign * b.sign, BigNorm(qr.q), a.e - b.e - k, qr.r # <<>>)

\* Math.pow(a, n) for a > 0 and a whole n >= 0.  The language leaves the
\* precision of Math.pow to the implementation; the model takes the double
\* nearest to the exact power.
FlPow(a, n) == FlRound(1, BigPow(a.m, n), a.e * n, FALSE)

\* Math.max(0, a)
FlMax0(a) == IF a.sign < 0 THEN FlZero ELSE a

(***************************************************************************)
(* calculateLoanMetrics({ amount, annualRate, months, paymentType }).      *)
(* An argument is a number [kind |-> "num", value], NaN or Infinity;       *)
(* amount and months are whole numbers and annualRate is given in          *)
(* hundredths of a percent (7.5 is 750): the number the calculator gets is *)
(* the double of that decimal.                                             *)
(***************************************************************************)
Num(v) == [kind |-> "num", value |-> v]
NaN == [kind |-> "nan", value |-> 0]
Infinity == [kind |-> "inf", value |-> 0]

\* Number(x || 0): NaN and 0 are falsy and give 0
NumberOrZero(x) == IF x.kind = "nan" THEN Num(0) ELSE x

\* Number.isFinite(x)
IsFinite(x) == x.kind = "num"

\* the double of the decimal hundredths / 100
FlOfHundredths(hundredths) == FlDiv(FlOfInt(hundredths), FlOfInt(100))

LoanThrown(kind) ==
    [status |-> "thrown", error |-> kind,
     monthly_payment |-> FlNull, first_payment |-> FlNull,
     last_payment |-> FlNull, total_payment |-> FlNull, overpayment |-> FlNull]

\* const i = rateYear / 100 / 12
MonthlyRate(rateYear) == FlDiv(FlDiv(rateYear, FlOfInt(100)), FlOfInt(12))

\* const principalPart = principal / termMonths
DiffPrincipalPart(principal, termMonths) == FlDiv(principal, termMonths)

\* the loop of the "diff" branch from period m on; st holds first, last,
\* total and remain, and remains, the value of remain after each period
RECURSIVE DiffLoop(_, _, _, _, _)
DiffLoop(m, principalPart, i, termMonths, st) ==
    IF m > termMonths THEN st
    ELSE LET pay == FlAdd(principalPart, FlMul(st.remain, i))
             remain == FlMax0(FlSub(st.remain, principalPart))
             next == [first   |-> IF m = 1 THEN pay ELSE st.first,
                      last    |-> IF m = termMonths THEN pay ELSE st.last,
                      total   |-> FlAdd(st.total, pay),
                      remain  |-> remain,
                      remains |-> Append(st.remains, remain)]
         IN  DiffLoop(m + 1, principalPart, i, termMonths, next)

\* the "diff" branch up to the end of its loop
DiffWalk(principal, i, termMonths) ==
    DiffLoop(1, DiffPrincipalPart(principal, FlOfInt(termMonths)), i, termMonths,
             [first |-> FlZero, last |-> FlZero, total |-> FlZero,
              remain |-> principal, remains |-> <<>>])

\* a faulty variant of DiffMetrics: interest is charged on the balance after
\* the period's principal part is paid
DiffMetricsInterestAfter(principal, i, termMonths) ==
    LET principalPart == DiffPrincipalPart(principal, FlOfInt(termMonths))
        st == DiffLoop(1, principalPart, i, termMonths,
                       [first |-> FlZero, last |-> FlZero, total |-> FlZero,
                        remain |-> FlSub(principal, principalPart), remains |-> <<>>])
    IN  [status |-> "returned", error |-> "",
         monthly_payment |-> FlNull,
         first_payment |-> st.first,
         last_payment |-> st.last,
         total_payment |-> st.total,
         overpayment |-> FlSub(st.total, principal)]

DiffMetrics(principal, i, termMonths) ==
    LET st == DiffWalk(principal, i, termMonths)
    IN  [status |-> "returned", error |-> "",
         monthly_payment |-> FlNull,
         first_payment |-> st.first,
         last_payment |-> st.last,
         total_payment |-> st.total,
         overpayment |-> FlSub(st.total, principal)]

\* a faulty variant of AnnuityMonthly: the payment is not multiplied by the
\* factor
AnnuityMonthlyNoFactor(principal, i, termMonths) ==
    IF i.m = <<>> THEN FlDiv(principal, FlOfInt(termMonths))
    ELSE LET factor == FlPow(FlAdd(FlOfInt(1), i), termMonths)
         IN  FlDiv(FlMul(principal, i), FlSub(factor, FlOfInt(1)))

\* monthly = principal / termMonths for i === 0, and otherwise
\* principal * i * factor / (factor - 1) with factor = Math.pow(1 + i, termMonths)
AnnuityMonthly(principal, i, termMonths) ==
    IF i.m = <<>> THEN FlDiv(principal, FlOfInt(termMonths))
    ELSE LET factor == FlPow(FlAdd(FlOfInt(1), i), termMonths)
         IN  FlDiv(FlMul(FlMul(principal, i), factor), FlSub(factor, FlOfInt(1)))

AnnuityMetrics(principal, i, termMonths) ==
    LET monthly == AnnuityMonthly(principal, i, termMonths)
        total == FlMul(monthly, FlOfInt(termMonths))
    IN  [status |-> "returned", error |-> "",
         monthly_payment |-> monthly,
         first_payment |-> monthly,
         last_payment |-> monthly,
         total_payment |-> total,
         overpayment |-> FlSub(total, principal)]

\* a faulty variant of calculateLoanMetrics: the rate is checked before the
\* principal
calculateLoanMetricsRateFirst(args) ==
    LET principal == NumberOrZero(args.amount)
        rateYear == NumberOrZero(args.annualRate)
        termMonths == NumberOrZero(args.months)
        i == MonthlyRate(FlOfHundredths(rateYear.value))
    IN  IF ~IsFinite(rateYear) \/ rateYear.value < 0 THEN LoanThrown("rate")
        ELSE IF ~IsFinite(principal) \/ principal.value <= 0 THEN LoanThrown("principal")
        ELSE IF ~IsFinite(termMonths) \/ termMonths.value <= 0 THEN LoanThrown("term")
        ELSE IF args.paymentType = "diff"
             THEN DiffMetrics(FlOfInt(principal.value), i, termMonths.value)
        ELSE AnnuityMetrics(FlOfInt(principal.value), i, termMonths.value)

calculateLoanMetrics(args) ==
    LET principal == NumberOrZero(args.amount)
        rateYear == NumberOrZero(args.annualRate)
        termMonths == NumberOrZero(args.months)
        i == MonthlyRate(FlOfHundredths(rateYear.value))
    IN  IF ~IsFinite(principal) \/ principal.value <= 0 THEN LoanThrown("principal")
        ELSE IF ~IsFinite(rateYear) \/ rateYear.value < 0 THEN LoanThrown("rate")
        ELSE IF ~IsFinite(termMonths) \/ termMonths.value <= 0 THEN LoanThrown("term")
        ELSE IF args.paymentType = "diff"
             THEN DiffMetrics(FlOfInt(principal.value), i, termMonths.value)
        ELSE AnnuityMetrics(FlOfInt(principal.value), i, termMonths.value)

\* the values the local remain of the "diff" branch takes, period by period
\* (none when the call throws or takes the annuity branch)
RemainTrace(args) ==
    IF calculateLoanMetrics(args).status = "returned" /\ args.paymentType = "diff"
    THEN DiffWalk(FlOfInt(args.amount.value),
                  MonthlyRate(FlOfHundredths(NumberOrZero(args.annualRate).value)),
                  args.months.value).remains
    ELSE <<>>

(***************************************************************************)
(* The create-loan form (budgetLoanCreateCard).  The form is the record of *)
(* the texts of its inputs; an amount is a whole number of currency units, *)
(* a rate a number of hundredths of a percent, so toFixed(2) of either     *)
(* writes the number itself with two decimals.                             *)
(***************************************************************************)
\* Number(text), without the comma replaced: [finite, value]
JsNumber(text) ==
    CASE text = ""      -> [finite |-> TRUE, value |-> 0]
      [] text = "0"     -> [finite |-> TRUE, value |-> 0]
      [] text = "12"    -> [finite |-> TRUE, value |-> 1200]
      [] text = "100"   -> [finite |-> TRUE, value |-> 10000]
      [] text = "100.5" -> [finite |-> TRUE, value |-> 10050]
      [] OTHER          -> [finite |-> FALSE, value |-> 0]

\* the number parseMoneyInput(raw) returns when it does not throw
MoneyNumber(raw) ==
    CASE raw = "900000"  -> 900000
      [] raw = "1200000" -> 1200000
      [] raw = "1,5m"    -> 1500000
      [] raw = "5000"    -> 5000
      [] raw = "100000"  -> 100000
      [] raw = "-5"      -> 0 - 5
      [] OTHER           -> 0

\* Number(el.loanTermMonthsInput.value || 0): [finite, integer, value], the
\* value being the whole part of the number
TermNumber(text) ==
    CASE text = ""    -> [finite |-> TRUE, integer |-> TRUE, value |-> 0]
      [] text = "0"   -> [finite |-> TRUE, integer |-> TRUE, value |-> 0]
      [] text = "1"   -> [finite |-> TRUE, integer |-> TRUE, value |-> 1]
      [] text = "2"   -> [finite |-> TRUE, integer |-> TRUE, value |-> 2]
      [] text = "2.5" -> [finite |-> TRUE, integer |-> FALSE, value |-> 2]
      [] text = "600" -> [finite |-> TRUE, integer |-> TRUE, value |-> 600]
      [] text = "601" -> [finite |-> TRUE, integer |-> TRUE, value |-> 601]
      [] OTHER        -> [finite |-> FALSE, integer |-> FALSE, value |-> 0]

\* addMonthsYmd(ymd, months) || ymd
addMonthsYmdOr(ymd, months) ==
    IF addMonthsYmd(ymd, months) = EmptyText THEN ymd ELSE addMonthsYmd(ymd, months)

\* the filter of normalizeLoanRateRows: both dates given and a finite rate
LoanRateRowKept(x) ==
    /\ x.start_date # EmptyText
    /\ x.end_date # EmptyText
    /\ JsNumber(x.annual_rate).finite

normalizeLoanRateRows(rows, fallbackRate, firstPaymentDate, termMonths) ==
    LET kept == SelectSeq(rows, LoanRateRowKept)
        out == [k \in 1..Len(kept) |->
                   [start_date |-> kept[k].start_date,
                    end_date |-> kept[k].end_date,
                    annual_rate |-> JsNumber(kept[k].annual_rate).value]]
    IN  IF Len(out) = 0
        THEN <<[start_date |-> firstPaymentDate,
                end_date |-> addMonthsYmdOr(firstPaymentDate, termMonths - 1),
                annual_rate |-> fallbackRate]>>
        ELSE SortByStart(out)

\* a faulty variant of LoanCreateCheck: the remaining principal is not
\* compared with the principal
LoanCreateCheckNoCurrent(form) ==
    LET annualRate == RateNumber(form.annualRate)
        termMonths == TermNumber(form.termMonths)
    IN  IF MoneyError(form.principal) # "ok" THEN MoneyError(form.principal)
        ELSE IF MoneyError(form.currentPrincipal) # "ok"
             THEN MoneyError(form.currentPrincipal)
        ELSE IF ~annualRate.finite \/ annualRate.value < 0 \/ annualRate.value > 10000
             THEN "rate-range"
        ELSE IF ~termMonths.integer \/ termMonths.value < 1 \/ termMonths.value > 600
             THEN "term-range"
        ELSE IF ~IsYmdForm(form.firstPaymentDate) THEN "first-payment-date"
        ELSE IF form.issueDate # EmptyText /\ ~IsYmdForm(form.issueDate) THEN "issue-date"
        ELSE IF form.issueDate # EmptyText /\ form.firstPaymentDate <= form.issueDate
             THEN "first-not-after-issue"
        ELSE "ok"

\* the checks of the save handler in their order: the error thrown, or "ok"
LoanCreateCheck(form) ==
    LET annualRate == RateNumber(form.annualRate)
        termMonths == TermNumber(form.termMonths)
    IN  IF MoneyError(form.principal) # "ok" THEN MoneyError(form.principal)
        ELSE IF MoneyError(form.currentPrincipal) # "ok"
             THEN MoneyError(form.currentPrincipal)
        ELSE IF MoneyNumber(form.currentPrincipal) > MoneyNumber(form.principal)
             THEN "current-above-principal"
        ELSE IF ~annualRate.finite \/ annualRate.value < 0 \/ annualRate.value > 10000
             THEN "rate-range"
        ELSE IF ~termMonths.integer \/ termMonths.value < 1 \/ termMonths.value > 600
             THEN "term-range"
        ELSE IF ~IsYmdForm(form.firstPaymentDate) THEN "first-payment-date"
        ELSE IF form.issueDate # EmptyText /\ ~IsYmdForm(form.issueDate) THEN "issue-date"
        ELSE IF form.issueDate # EmptyText /\ form.firstPaymentDate <= form.issueDate
             THEN "first-not-after-issue"
        ELSE "ok"

\* the payload the save handler hands to apiLoanCreate (POST /api/miniapp/loans);
\* issue_date is null (EmptyText) when the field is empty
CreateLoanRequest(form, rows) ==
    [type |-> "CreateLoan",
     principal |-> MoneyNumber(form.principal),
     current_principal |-> MoneyNumber(form.currentPrincipal),
     annual_rate |-> RateNumber(form.annualRate).value,
     term_months |-> TermNumber(form.termMonths).value,
     first_payment_date |-> form.firstPaymentDate,
     issue_date |-> form.issueDate,
     rate_periods |-> normalizeLoanRateRows(rows, RateNumber(form.annualRate).value,
                                            form.firstPaymentDate,
                                            TermNumber(form.termMonths).value)]

\* Math.max(1, Number(el.loanTermMonthsInput.value || 1)) - 1 as addMonthsYmd
\* takes it: NaN counts as no shift and a fraction is cut off
RateRangeShift(termText) ==
    IF termText = "" \/ ~TermNumber(termText).finite THEN 0
    ELSE IF TermNumber(termText).value < 1 THEN 0
    ELSE TermNumber(termText).value - 1

\* the row the "add period" button pushes
NextLoanRateRow(form, rows) ==
    LET loanEnd == addMonthsYmdOr(form.firstPaymentDate, RateRangeShift(form.termMonths))
        nextStart == IF rows # <<>> /\ rows[Len(rows)].end_date # EmptyText
                     THEN addDaysYmdSafe(rows[Len(rows)].end_date, 1)
                     ELSE form.firstPaymentDate
    IN  [start_date |-> nextStart, end_date |-> loanEnd, annual_rate |-> form.annualRate]

(***************************************************************************)
(* The loan card: the extra-payment form and the scenario presets.  The    *)
(* form is the record of the values of its inputs; today is the date       *)
(* fmtDate(0) reads from the clock.                                        *)
(***************************************************************************)
ExtraForm(amount, date, mode, strategy) ==
    [amount |-> amount, date |-> date, mode |-> mode, strategy |-> strategy]

\* the event previewExtraPayment and saveExtraPayment build from the form
ExtraEventOfForm(form) ==
    ExtraPayment(form.date, MoneyNumber(form.amount), form.mode, form.strategy)

\* a faulty variant of PreviewRequest: the first event goes to
\* events/extra-payment
PreviewRequestCommitted(loanId, events) ==
    [type |-> "CommitExtraPayment", loan_id |-> loanId, key |-> <<>>,
     date |-> IF events = <<>> THEN EmptyText ELSE EventDate(events[1]),
     amount |-> IF events # <<>> /\ events[1].type = "EXTRA_PAYMENT"
                THEN events[1].amount ELSE 1,
     mode |-> "ONE_TIME", strategy |-> "REDUCE_TERM", events |-> events]

\* POST /api/miniapp/loans/${loanId}/scenarios/preview with { events }
PreviewRequest(loanId, events) ==
    [type |-> "PreviewScenario", loan_id |-> loanId, events |-> events]

\* `loan-extra-${loanId}-${date}-${amount}-${mode}-${strategy}`
IdempotencyKey(loanId, date, amount, mode, strategy) ==
    <<"loan-extra", loanId, date, amount, mode, strategy>>

\* a faulty variant of ExtraPaymentRequest: no Idempotency-Key header
ExtraPaymentRequestNoKey(loanId, form) ==
    [type |-> "CommitExtraPayment", loan_id |-> loanId, key |-> <<>>,
     date |-> form.date, amount |-> MoneyNumber(form.amount), mode |-> form.mode,
     strategy |-> form.strategy]

\* POST /api/miniapp/loans/${loanId}/events/extra-payment with the
\* Idempotency-Key header and { date, amount, mode, strategy }
ExtraPaymentRequest(loanId, form) ==
    [type |-> "CommitExtraPayment", loan_id |-> loanId,
     key |-> IdempotencyKey(loanId, form.date, MoneyNumber(form.amount), form.mode,
                            form.strategy),
     date |-> form.date, amount |-> MoneyNumber(form.amount), mode |-> form.mode,
     strategy |-> form.strategy]

\* a faulty variant of buildLoanPresetEvent: the date field is not read
buildLoanPresetEventToday(preset, dateInput, clock, loan) ==
    LET baseDate == clock
    IN  IF preset = "plus5k"
        THEN <<ExtraPayment(baseDate, 5000, "MONTHLY", "REDUCE_TERM")>>
        ELSE IF preset = "one100k"
        THEN <<ExtraPayment(baseDate, 100000, "ONE_TIME", "REDUCE_TERM")>>
        ELSE IF preset = "rateMinus2"
        THEN <<RateChange(addMonthsYmd(baseDate, 6),
                          IF loan.annual_rate - 200 < 0 THEN 0 ELSE loan.annual_rate - 200)>>
        ELSE IF preset = "holiday3"
        THEN <<Holiday(baseDate, addMonthsYmd(baseDate, 2))>>
        ELSE <<>>

\* buildLoanPresetEvent(preset), with the value of el.loanExtraDateInput,
\* the date of the clock and state.budget.activeLoan
buildLoanPresetEvent(preset, dateInput, clock, loan) ==
    LET baseDate == IF dateInput = EmptyText THEN clock ELSE dateInput
    IN  IF preset = "plus5k"
        THEN <<ExtraPayment(baseDate, 5000, "MONTHLY", "REDUCE_TERM")>>
        ELSE IF preset = "one100k"
        THEN <<ExtraPayment(baseDate, 100000, "ONE_TIME", "REDUCE_TERM")>>
        ELSE IF preset = "rateMinus2"
        THEN <<RateChange(addMonthsYmd(baseDate, 6),
                          IF loan.annual_rate - 200 < 0 THEN 0 ELSE loan.annual_rate - 200)>>
        ELSE IF preset = "holiday3"
        THEN <<Holiday(baseDate, addMonthsYmd(baseDate, 2))>>
        ELSE <<>>

\* Number(el.value || fallback) of a page or page-size input
PageNumber(text, fallback) ==
    CASE text = ""         -> Num(fallback)
      [] text = "0"        -> Num(0)
      [] text = "-3"       -> Num(0 - 3)
      [] text = "2"        -> Num(2)
      [] text = "60"       -> Num(60)
      [] text = "500"      -> Num(500)
      [] text = "Infinity" -> Infinity
      [] OTHER             -> NaN

\* Math.max(a, b) and Math.min(a, b) for a whole number a: NaN when b is NaN
MathMax(a, b) ==
    IF b.kind = "nan" THEN NaN
    ELSE IF b.kind = "inf" THEN Infinity
    ELSE IF b.value > a THEN b ELSE Num(a)

MathMin(a, b) ==
    IF b.kind = "nan" THEN NaN
    ELSE IF b.kind = "inf" THEN Num(a)
    ELSE IF b.value < a THEN b ELSE Num(a)

\* loadLoanSchedule: GET /api/miniapp/loans/${loanId}/schedule?page=&page_size=
ScheduleRequest(loanId, inputs) ==
    [type |-> "GetSchedule", loan_id |-> loanId,
     page |-> MathMax(1, PageNumber(inputs.page, 1)),
     page_size |-> MathMin(120, MathMax(10, PageNumber(inputs.page_size, 60)))]

\* what the two result fields show of a response: Math.max(0, months_diff),
\* interest_saving, the new payoff date and the new payment
Shown(data) ==
    [status |-> "shown",
     months_diff |-> IF data.months_diff < 0 THEN 0 ELSE data.months_diff,
     interest_saving |-> data.interest_saving,
     monthly_payment |-> data.monthly_payment,
     payoff_date |-> data.payoff_date]

\* an empty result field
NothingShown == PreviewError("none")

(***************************************************************************)
(* The store behind the requests: one loan, its committed events, the      *)
(* version of its schedule and the idempotency keys seen.  It is written   *)
(* down from the design of the interface (sections 3, 5, 6 and 7).         *)
(***************************************************************************)
ServerLoan ==
    [id |-> 1, principal |-> 1200000, annual_rate |-> 1200, payment_type |-> "ANNUITY",
     term_months |-> 6, first_payment_date |-> YmdText(2024, 1, 31)]

NoVersion == 0 - 1

\* the version a request is made against (none when it carries none)
RequestVersion(request) ==
    IF "version" \in DOMAIN request THEN request.version ELSE NoVersion

\* the event a commit request asks to persist
CommittedEvent(request) ==
    ExtraPayment(request.date, request.amount, request.mode, request.strategy)

\* the answer to a request and the store after it: [status, data, events,
\* version, keys].  PreviewScenario reads only; CommitExtraPayment persists
\* one event and bumps the version, once per idempotency key, and refuses a
\* stale version
ServerAnswer(request, events, version, keys) ==
    IF request.type = "PreviewScenario"
    THEN LET data == PreviewScenario(ServerLoan, events, request.events)
         IN  [status |-> data.status, data |-> data, events |-> events,
              version |-> version, keys |-> keys]
    ELSE LET check == PreviewScenario(ServerLoan, events, <<CommittedEvent(request)>>)
         IN  IF request.key # <<>> /\ request.key \in keys
             THEN [status |-> "replayed", data |-> check, events |-> events,
                   version |-> version, keys |-> keys]
             ELSE IF RequestVersion(request) # NoVersion
                     /\ RequestVersion(request) # version
             THEN [status |-> "ConcurrencyConflictError", data |-> check,
                   events |-> events, version |-> version, keys |-> keys]
             ELSE IF check.status # "ok"
             THEN [status |-> check.status, data |-> check, events |-> events,
                   version |-> version, keys |-> keys]
             ELSE [status |-> "ok", data |-> check,
                   events |-> Append(events, CommittedEvent(request)),
                   version |-> version + 1,
                   keys |-> IF request.key = <<>> THEN keys ELSE keys \cup {request.key}]

(***************************************************************************)
(* The state before an operation ran.                                      *)
(***************************************************************************)

DateIdle ==
    /\ dateFn = "none"
    /\ dateYmd = EmptyText
    /\ dateN = 0
    /\ dateOut = EmptyText

RateIdle ==
    /\ expenseRateRows = <<>>
    /\ loanStartInput = EmptyText
    /\ loanMonthsInput = 0
    /\ rateFn = "none"
    /\ rateEnd = EmptyText
    /\ rateOut = Returned(<<>>)

LoanIdle ==
    /\ loanArgs = [amount |-> NaN, annualRate |-> NaN, months |-> NaN,
                   paymentType |-> "annuity"]
    /\ loanFn = "none"
    /\ loanOut = LoanThrown("")
    /\ loanRemains = <<>>

NoLoan == [id |-> 0, annual_rate |-> 0]
NoSummary == [loan_id |-> 0]
NoForm ==
    [principal |-> "", currentPrincipal |-> "", annualRate |-> "", termMonths |-> "",
     firstPaymentDate |-> EmptyText, issueDate |-> EmptyText]

\* the state of the loan views when the application starts
UiIdle ==
    /\ loanForm = NoForm
    /\ loanRateRows = <<>>
    /\ loanCreateError = ""
    /\ loanView = "list"
    /\ loans = <<>>
    /\ activeLoanId = 0
    /\ activeLoan = NoLoan
    /\ activeLoanSummary = NoSummary
    /\ sent = <<>>
    /\ uiOp = "none"

\* the state of the loan card when the application starts: an empty form,
\* nothing shown, an empty store
NoExtraForm == ExtraForm("", EmptyText, "ONE_TIME", "REDUCE_TERM")
NoOutcome == [status |-> "none", against |-> NoVersion, current |-> NoVersion]
NoPreview ==
    [kind |-> "none", form |-> NoExtraForm, loan |-> NoLoan, version |-> NoVersion,
     clock |-> EmptyText, events |-> <<>>, output |-> NothingShown]
CardIdle ==
    /\ loanExtraForm = NoExtraForm
    /\ loanExtraPreview = NothingShown
    /\ loanScenarioResult = NothingShown
    /\ loanScheduleMeta = NoVersion
    /\ today = YmdText(2024, 2, 29)
    /\ storedEvents = <<>>
    /\ storedVersion = 0
    /\ storedKeys = {}
    /\ requestOutcome = NoOutcome
    /\ keptPreview = NoPreview

EngineIdle ==
    /\ engineLoan = ServerLoan
    /\ engineLog = <<>>
    /\ engineEvents = <<>>
    /\ engineFn = "none"
    /\ engineOut = NothingShown

\* the inputs of the schedule view, empty
NoScheduleInputs == [page |-> "", page_size |-> ""]

\* state.budget.activeTab: "overview"; no card of the loans tab shown, no
\* loan card rendered, no openLoanCard under way
OpenIdle ==
    /\ activeTab = "overview"
    /\ shownCards = {}
    /\ renderedLoan = 0
    /\ openCalls = <<>>

\* the loans tab on the card of a view, the card of loan rendered (0: none)
OpenAt(view, loan) ==
    /\ activeTab = "loans"
    /\ shownCards = {view}
    /\ renderedLoan = loan
    /\ openCalls = <<>>

\* setLoanView: a handler that changes the view shows the card of the new
\* view and hides the cards of the others
ShownAfter(before, after, shown) == IF after # before THEN {after} ELSE shown

\* renderLoanCard in openLoanCard: a handler that ends on the card has
\* rendered the loan it opened
RenderedAfter(before, after, opened, rendered) ==
    IF after = "card" /\ before # "card" THEN opened ELSE rendered

\* state.loadingCount: 0, state.loadingShowTimer: null, the loader hidden
LoaderIdle ==
    /\ loadingCount = 0
    /\ loadingShowTimer = 0
    /\ loaderShown = FALSE
    /\ loadingVisibleAt = 0
    /\ timers = {}
    /\ calls = {}

\* what resultEl shows: nothing, the list of the answer to query q, or the
\* error text
SearchShows(kind, q) == [kind |-> kind, q |-> q]

\* a search box before any input
SearchIdle ==
    /\ searchInput = ""
    /\ searchTimer = FALSE
    /\ searchCalls = <<>>
    /\ searchResult = SearchShows("none", "")
    /\ searchIssued = ""

\* state.budget.step: 1
WizardIdle ==
    /\ budgetStep = 1
    /\ nextCalls = <<>>
    /\ onboardingCompleted = FALSE

ShellIdle ==
    /\ loanScheduleInputs = NoScheduleInputs
    /\ OpenIdle
    /\ LoaderIdle
    /\ SearchIdle
    /\ WizardIdle

\* the loans tab on the card of a view and nothing else under way
ShellAt(view, loan) ==
    /\ loanScheduleInputs = NoScheduleInputs
    /\ OpenAt(view, loan)
    /\ LoaderIdle
    /\ SearchIdle
    /\ WizardIdle

(***************************************************************************)
(* Inputs of the date helpers.                                             *)
(***************************************************************************)
Years == FirstYear..LastYear

CalendarDates ==
    {t \in {YmdText(y, m, d) : y \in Years, m \in 1..12, d \in 1..31} :
        IsCalendarDate(t)}

\* texts of the form that name no calendar date, and texts not of the form
BadYmdTexts == {YmdText(2024, 13, 1), YmdText(2024, 2, 31),
                YmdText(2023, 2, 29), YmdText(2024, 0, 10),
                YmdText(2024, 4, 0)}
MalformedTexts == {EmptyText, OtherText}

DateInputs == CalendarDates \cup BadYmdTexts \cup MalformedTexts
Shifts == (0 - MaxShift)..MaxShift

(***************************************************************************)
(* Inputs of the rate-period validator: rows over a window of consecutive  *)
(* days around the end of February 2024.                                   *)
(***************************************************************************)
WindowDates == {YmdText(2024, 2, 28), YmdText(2024, 2, 29), YmdText(2024, 3, 1)}

Row(rate, start, end) == [annual_rate |-> rate, start_date |-> start, end_date |-> end]

RateTexts == {"", "abc", "-0,5", "0", "7,5", "100", "100.5"}

\* rows with a good rate over every pair of window dates in order, one pair
\* out of order and the pairs with an empty date; and every rate text over
\* the whole window
RowInputs ==
    {Row("12", p[1], p[2]) : p \in {q \in WindowDates \X WindowDates : q[1] <= q[2]}}
    \cup {Row("12", YmdText(2024, 2, 29), YmdText(2024, 2, 28)),
          Row("12", EmptyText, EmptyText),
          Row("12", EmptyText, YmdText(2024, 3, 1)),
          Row("12", YmdText(2024, 2, 28), EmptyText)}
    \cup {Row(r, YmdText(2024, 2, 28), YmdText(2024, 3, 1)) : r \in RateTexts}

RowLists == UNION {[1..n -> RowInputs] : n \in 0..MaxRows}

LoanStarts == {EmptyText} \cup WindowDates
LoanEnds == WindowDates \cup {YmdText(2024, 3, 29)}
MoneyTexts == {"", "abc", "0", "1200000"}

DateInit ==
    /\ dateFn = "none"
    /\ dateYmd \in DateInputs
    /\ dateN \in Shifts
    /\ dateOut = EmptyText
    /\ RateIdle
    /\ LoanIdle
    /\ UiIdle
    /\ CardIdle
    /\ EngineIdle
    /\ ShellIdle

CallAddMonthsYmd ==
    /\ dateFn = "none"
    /\ dateFn' = "addMonthsYmd"
    /\ dateOut' = addMonthsYmd(dateYmd, dateN)
    /\ UNCHANGED <<dateYmd, dateN>>
    /\ UNCHANGED rateVars
    /\ UNCHANGED loanVars
    /\ UNCHANGED uiVars
    /\ UNCHANGED cardVars
    /\ UNCHANGED engineVars
    /\ UNCHANGED shellVars

CallAddDaysYmd ==
    /\ dateFn = "none"
    /\ dateFn' = "addDaysYmd"
    /\ dateOut' = addDaysYmd(dateYmd, dateN)
    /\ UNCHANGED <<dateYmd, dateN>>
    /\ UNCHANGED rateVars
    /\ UNCHANGED loanVars
    /\ UNCHANGED uiVars
    /\ UNCHANGED cardVars
    /\ UNCHANGED engineVars
    /\ UNCHANGED shellVars

CallAddDaysYmdSafe ==
    /\ dateFn = "none"
    /\ dateFn' = "addDaysYmdSafe"
    /\ dateOut' = addDaysYmdSafe(dateYmd, dateN)
    /\ UNCHANGED <<dateYmd, dateN>>
    /\ UNCHANGED rateVars
    /\ UNCHANGED loanVars
    /\ UNCHANGED uiVars
    /\ UNCHANGED cardVars
    /\ UNCHANGED engineVars
    /\ UNCHANGED shellVars

DateNext == CallAddMonthsYmd \/ CallAddDaysYmd \/ CallAddDaysYmdSafe

SpecDates == DateInit /\ [][DateNext]_vars

RateInit ==
    /\ expenseRateRows \in RowLists
    /\ loanStartInput \in LoanStarts
    /\ loanMonthsInput \in 0..MaxMonths
    /\ rateFn = "none"
    /\ rateEnd = EmptyText
    /\ rateOut = Returned(<<>>)
    /\ DateIdle
    /\ LoanIdle
    /\ UiIdle
    /\ CardIdle
    /\ EngineIdle
    /\ ShellIdle

\* normalizeAndValidateRatePeriods(rows, loanStart, loanEnd) on the rows of
\* the form
CallValidate ==
    /\ rateFn = "none"
    /\ loanStartInput # EmptyText
    /\ \E loanEnd \in LoanEnds :
          /\ rateEnd' = loanEnd
          /\ rateOut' = normalizeAndValidateRatePeriods(expenseRateRows, loanStartInput, loanEnd)
    /\ rateFn' = "normalizeAndValidateRatePeriods"
    /\ UNCHANGED <<expenseRateRows, loanStartInput, loanMonthsInput>>
    /\ UNCHANGED dateVars
    /\ UNCHANGED loanVars
    /\ UNCHANGED uiVars
    /\ UNCHANGED cardVars
    /\ UNCHANGED engineVars
    /\ UNCHANGED shellVars

\* the save button of the expense form: buildExpensePayloadFromForm()
CallBuildExpensePayload ==
    /\ rateFn = "none"
    /\ \E principalRaw \in MoneyTexts :
          /\ rateOut' = buildExpensePayloadFromForm(expenseRateRows, principalRaw,
                                                     loanStartInput, loanMonthsInput)
          /\ expenseRateRows' = ExpenseRowsAfterBuild(expenseRateRows, principalRaw,
                                                       loanStartInput, loanMonthsInput)
    /\ rateEnd' = addMonthsYmd(loanStartInput, loanMonthsInput - 1)
    /\ rateFn' = "buildExpensePayloadFromForm"
    /\ UNCHANGED <<loanStartInput, loanMonthsInput>>
    /\ UNCHANGED dateVars
    /\ UNCHANGED loanVars
    /\ UNCHANGED uiVars
    /\ UNCHANGED cardVars
    /\ UNCHANGED engineVars
    /\ UNCHANGED shellVars

RateNext == CallValidate \/ CallBuildExpensePayload

SpecRates == RateInit /\ [][RateNext]_vars

(***************************************************************************)
(* Inputs of the loan calculator.                                          *)
(***************************************************************************)
Amounts == {NaN, Infinity, Num(0 - 1), Num(0), Num(1), Num(29), Num(1000), Num(1200000)}
AnnualRates == {NaN, Infinity, Num(0 - 1), Num(0), Num(1), Num(750), Num(1200), Num(10000)}
Terms == {NaN, Infinity, Num(0 - 1)} \cup {Num(n) : n \in 0..MaxTerm}
PaymentTypes == {"annuity", "diff"}

LoanInit ==
    /\ loanArgs \in [amount : Amounts, annualRate : AnnualRates, months : Terms,
                     paymentType : PaymentTypes]
    /\ loanFn = "none"
    /\ loanOut = LoanThrown("")
    /\ loanRemains = <<>>
    /\ DateIdle
    /\ RateIdle
    /\ UiIdle
    /\ CardIdle
    /\ EngineIdle
    /\ ShellIdle

CallCalculateLoanMetrics ==
    /\ loanFn = "none"
    /\ loanFn' = "calculateLoanMetrics"
    /\ loanOut' = calculateLoanMetrics(loanArgs)
    /\ loanRemains' = RemainTrace(loanArgs)
    /\ UNCHANGED loanArgs
    /\ UNCHANGED dateVars
    /\ UNCHANGED rateVars
    /\ UNCHANGED uiVars
    /\ UNCHANGED cardVars
    /\ UNCHANGED engineVars
    /\ UNCHANGED shellVars

LoanNext == CallCalculateLoanMetrics

SpecLoan == LoanInit /\ [][LoanNext]_vars

(***************************************************************************)
(* The create-loan view.  The form starts filled in by the user (the input *)
(* handlers of renderLoanRateRows write any text into any field of a row,  *)
(* so every list of rows is one the form can hold); one loan exists and    *)
(* its card was opened before.                                             *)
(***************************************************************************)
StoredLoan(id, annualRate) == [id |-> id, annual_rate |-> annualRate]
StoredSummary(id) == [loan_id |-> id]

Form(principal, currentPrincipal, annualRate, termMonths, firstPaymentDate, issueDate) ==
    [principal |-> principal, currentPrincipal |-> currentPrincipal,
     annualRate |-> annualRate, termMonths |-> termMonths,
     firstPaymentDate |-> firstPaymentDate, issueDate |-> issueDate]

\* every combination of good and bad field texts
FormInputs ==
    {Form(p, c, r, t, f, i) :
        p \in {"0", "900000", "1200000"},
        c \in {"", "900000", "1,5m"},
        r \in {"", "-0,5", "7,5", "100.5"},
        t \in {"0", "2", "2.5", "601"},
        f \in {EmptyText, YmdText(2024, 2, 28), YmdText(2024, 2, 31)},
        i \in {EmptyText, OtherText, YmdText(2024, 2, 27), YmdText(2024, 2, 28)}}

\* forms that pass every check
GoodForms ==
    {Form("1200000", "900000", "12", t, YmdText(2024, 2, 28), i) :
        t \in {"1", "2"}, i \in {EmptyText, YmdText(2024, 2, 27)}}

\* the single row resetLoanCreateForm and syncLoanCreateRatePeriodRange keep
\* in step with the form
FormRow(form) ==
    Row(form.annualRate, form.firstPaymentDate,
        addMonthsYmdOr(form.firstPaymentDate, RateRangeShift(form.termMonths)))

LoanRowInputs ==
    {Row("12", YmdText(2024, 2, 28), YmdText(2024, 2, 28)),
     Row("12", YmdText(2024, 2, 28), YmdText(2024, 2, 29)),
     Row("12", YmdText(2024, 2, 28), YmdText(2024, 3, 28)),
     Row("12", YmdText(2024, 2, 29), YmdText(2024, 3, 28)),
     Row("12", YmdText(2024, 3, 1), YmdText(2024, 3, 28)),
     Row("12", YmdText(2024, 3, 1), YmdText(2024, 3, 1)),
     Row("100.5", YmdText(2024, 2, 28), YmdText(2024, 3, 28)),
     Row("", YmdText(2024, 2, 28), YmdText(2024, 3, 28)),
     Row("7,5", YmdText(2024, 2, 28), YmdText(2024, 3, 28)),
     Row("12", EmptyText, YmdText(2024, 3, 28))}

LoanRowLists == UNION {[1..n -> LoanRowInputs] : n \in 1..MaxRows}

CreateInputs ==
    {[form |-> f, rows |-> <<FormRow(f)>>] : f \in FormInputs \cup GoodForms}
    \cup {[form |-> f, rows |-> rows] : f \in GoodForms, rows \in LoanRowLists}

CreateInit ==
    /\ \E input \in CreateInputs :
          /\ loanForm = input.form
          /\ loanRateRows = input.rows
    /\ loanCreateError = ""
    /\ loanView = "create"
    /\ loans = <<1>>
    /\ activeLoanId = 1
    /\ activeLoan = StoredLoan(1, 750)
    /\ activeLoanSummary = StoredSummary(1)
    /\ sent = <<>>
    /\ uiOp = "none"
    /\ DateIdle
    /\ RateIdle
    /\ LoanIdle
    /\ CardIdle
    /\ EngineIdle
    /\ ShellAt("create", 1)

\* the "add period" button
ClickLoanAddRatePeriod ==
    /\ uiOp = "none"
    /\ loanView = "create"
    /\ Len(loanRateRows) < MaxRows
    /\ loanRateRows' = Append(loanRateRows, NextLoanRateRow(loanForm, loanRateRows))
    /\ UNCHANGED <<loanForm, loanCreateError, loanView, loans, activeLoanId, activeLoan,
                   activeLoanSummary, sent, uiOp>>
    /\ UNCHANGED dateVars
    /\ UNCHANGED rateVars
    /\ UNCHANGED loanVars
    /\ UNCHANGED cardVars
    /\ UNCHANGED engineVars
    /\ UNCHANGED shellVars

\* the "remove period" button of row idx; renderLoanRateRows puts an empty
\* row into an empty list
ClickLoanRateRemove ==
    /\ uiOp = "none"
    /\ loanView = "create"
    /\ \E idx \in 1..Len(loanRateRows) :
          LET rest == SubSeq(loanRateRows, 1, idx - 1)
                      \o SubSeq(loanRateRows, idx + 1, Len(loanRateRows))
          IN  loanRateRows' = IF rest = <<>> THEN <<Row("", EmptyText, EmptyText)>>
                              ELSE rest
    /\ UNCHANGED <<loanForm, loanCreateError, loanView, loans, activeLoanId, activeLoan,
                   activeLoanSummary, sent, uiOp>>
    /\ UNCHANGED dateVars
    /\ UNCHANGED rateVars
    /\ UNCHANGED loanVars
    /\ UNCHANGED cardVars
    /\ UNCHANGED engineVars
    /\ UNCHANGED shellVars

\* how far the requests of the save handler get: the creation is refused,
\* or it succeeds and loadLoansList fails, or openLoanCard fails at its
\* first or at its second request, or all of them succeed
CreateOutcomes == {"refused", "list-failed", "card-failed", "schedule-failed", "opened"}

\* the save button of the create-loan form
ClickLoanCreateSave ==
    /\ uiOp = "none"
    /\ loanView = "create"
    /\ uiOp' = "loanCreateSave"
    /\ IF LoanCreateCheck(loanForm) # "ok"
       THEN /\ loanCreateError' = LoanCreateCheck(loanForm)
            /\ sent' = <<>>
            /\ UNCHANGED <<loans, activeLoanId, activeLoan, activeLoanSummary, loanView>>
       ELSE \E outcome \in CreateOutcomes :
               LET request == CreateLoanRequest(loanForm, loanRateRows)
                   id == Len(loans) + 1
               IN  /\ sent' = <<request>>
                          \o (IF outcome = "refused" THEN <<>> ELSE <<[type |-> "GetLoans"]>>)
                          \o (IF outcome \in {"refused", "list-failed"} THEN <<>>
                              ELSE <<[type |-> "GetLoan", loan_id |-> id]>>)
                          \o (IF outcome \in {"schedule-failed", "opened"}
                              THEN <<[type |-> "GetSchedule", loan_id |-> id,
                                      page |-> Num(1), page_size |-> Num(24)]>>
                              ELSE <<>>)
                   /\ loans' = IF outcome \in {"refused", "list-failed"} THEN loans
                               ELSE Append(loans, id)
                   /\ activeLoanId' = IF outcome \in {"refused", "list-failed"}
                                      THEN activeLoanId ELSE id
                   /\ activeLoan' = IF outcome \in {"schedule-failed", "opened"}
                                    THEN StoredLoan(id, request.annual_rate)
                                    ELSE activeLoan
                   /\ activeLoanSummary' = IF outcome \in {"schedule-failed", "opened"}
                                           THEN StoredSummary(id)
                                           ELSE activeLoanSummary
                   /\ loanView' = IF outcome = "opened" THEN "card" ELSE loanView
                   /\ loanCreateError' = IF outcome = "opened" THEN loanCreateError
                                         ELSE "request-failed"
    /\ UNCHANGED <<loanForm, loanRateRows>>
    /\ UNCHANGED dateVars
    /\ UNCHANGED rateVars
    /\ UNCHANGED loanVars
    /\ UNCHANGED cardVars
    /\ UNCHANGED engineVars
    /\ shownCards' = ShownAfter(loanView, loanView', shownCards)
    /\ renderedLoan' = RenderedAfter(loanView, loanView', activeLoanId', renderedLoan)
    /\ UNCHANGED backVars

CreateNext == ClickLoanAddRatePeriod \/ ClickLoanRateRemove \/ ClickLoanCreateSave

SpecCreate == CreateInit /\ [][CreateNext]_vars


(***************************************************************************)
(* Inputs of the scenario engine: small loans whose first payment falls on *)
(* the last day of January 2024, a committed log of at most one event, and *)
(* one extra payment to preview.                                           *)
(***************************************************************************)
EngineTerms == {1, 2, 3, 6}

EngineLoans ==
    {[id |-> 1, principal |-> 100000, annual_rate |-> rate, payment_type |-> type,
      term_months |-> term, first_payment_date |-> YmdText(2024, 1, 31)] :
        rate \in {0, 750, 1200}, type \in {"ANNUITY", "DIFFERENTIATED"},
        term \in EngineTerms}

EngineLogs ==
    {<<>>,
     <<RateChange(YmdText(2024, 3, 15), 1500)>>,
     <<Holiday(YmdText(2024, 2, 29), YmdText(2024, 3, 31))>>,
     <<ExtraPayment(YmdText(2024, 2, 29), 20000, "ONE_TIME", "REDUCE_PAYMENT")>>}

EngineDates ==
    {YmdText(2024, 1, 30), YmdText(2024, 1, 31), YmdText(2024, 2, 15),
     YmdText(2024, 2, 29), YmdText(2024, 6, 30), YmdText(2025, 1, 31)}

EnginePayments ==
    {ExtraPayment(date, amount, mode, strategy) :
        date \in EngineDates, amount \in {0, 1, 5000, 50000, 100000},
        mode \in {"ONE_TIME", "MONTHLY"},
        strategy \in {"REDUCE_TERM", "REDUCE_PAYMENT"}}

EngineInit ==
    /\ engineLoan \in EngineLoans
    /\ engineLog \in EngineLogs
    /\ \E e \in EnginePayments : engineEvents = <<e>>
    /\ engineFn = "none"
    /\ engineOut = NothingShown
    /\ DateIdle
    /\ RateIdle
    /\ LoanIdle
    /\ UiIdle
    /\ CardIdle
    /\ ShellIdle

CallPreviewScenario ==
    /\ engineFn = "none"
    /\ engineFn' = "PreviewScenario"
    /\ engineOut' = PreviewScenario(engineLoan, engineLog, engineEvents)
    /\ UNCHANGED <<engineLoan, engineLog, engineEvents>>
    /\ UNCHANGED dateVars
    /\ UNCHANGED rateVars
    /\ UNCHANGED loanVars
    /\ UNCHANGED uiVars
    /\ UNCHANGED cardVars
    /\ UNCHANGED shellVars

EngineNext == CallPreviewScenario

SpecEngine == EngineInit /\ [][EngineNext]_vars

(***************************************************************************)
(* The loan card of loan 1.  The handlers of its views, and around them    *)
(* two things the client does not control: another session committing an   *)
(* extra payment to the same loan, and the date of the clock moving on.    *)
(***************************************************************************)
CardDay == YmdText(2024, 2, 29)
ClockEnd == YmdText(2024, 3, 1)

\* the requests of openLoanCard(loanId)
OpenLoanCardRequests(loanId) ==
    <<[type |-> "GetLoan", loan_id |-> loanId],
      [type |-> "GetSchedule", loan_id |-> loanId, page |-> Num(1), page_size |-> Num(24)]>>

\* what is shown or toasted of an answer
AnswerOutput(answer) ==
    IF answer.status = "ok" THEN Shown(answer.data) ELSE PreviewError(answer.status)

\* the card is open on loan 1 as the store has it
CardOpen ==
    /\ loanForm = NoForm
    /\ loanRateRows = <<>>
    /\ loanCreateError = ""
    /\ loanView = "card"
    /\ loans = <<1>>
    /\ activeLoanId = 1
    /\ activeLoan = StoredLoan(1, ServerLoan.annual_rate)
    /\ activeLoanSummary = StoredSummary(1)
    /\ sent = <<>>
    /\ uiOp = "none"
    /\ loanExtraPreview = NothingShown
    /\ loanScenarioResult = NothingShown
    /\ loanScheduleMeta = NoVersion
    /\ today = CardDay
    /\ requestOutcome = NoOutcome
    /\ keptPreview = NoPreview
    /\ DateIdle
    /\ RateIdle
    /\ LoanIdle
    /\ EngineIdle
    /\ ShellAt("card", 1)

\* a GetSchedule request the interface takes: page >= 1 and page_size
\* within [10,120]
InPageRange(request) ==
    /\ \/ request.page.kind = "inf"
       \/ request.page.kind = "num" /\ request.page.value >= 1
    /\ request.page_size.kind = "num"
    /\ request.page_size.value >= 10
    /\ request.page_size.value <= 120

\* loadLoanSchedule(): the request and the version shown of the answer; a
\* request out of the range of the interface may be answered or refused
loadLoanSchedule ==
    IF activeLoanId = 0
    THEN /\ sent' = <<>>
         /\ UNCHANGED loanScheduleMeta
    ELSE \E request \in {ScheduleRequest(activeLoanId, loanScheduleInputs)} :
         \E answered \in IF InPageRange(request) THEN {TRUE} ELSE BOOLEAN :
             /\ sent' = <<request>>
             /\ loanScheduleMeta' = IF answered THEN storedVersion ELSE loanScheduleMeta

\* el.loanActionScheduleBtn: setLoanView("schedule"), loadLoanSchedule()
ClickLoanActionSchedule ==
    /\ loanView = "card"
    /\ uiOp' = "loanActionSchedule"
    /\ loanView' = "schedule"
    /\ loadLoanSchedule
    /\ UNCHANGED <<loans, activeLoanId, activeLoan, activeLoanSummary>>
    /\ UNCHANGED <<loanExtraForm, loanExtraPreview, loanScenarioResult, today,
                   storedEvents, storedVersion, storedKeys, requestOutcome, keptPreview>>
    /\ UNCHANGED createVars
    /\ UNCHANGED dateVars
    /\ UNCHANGED rateVars
    /\ UNCHANGED loanVars
    /\ UNCHANGED engineVars
    /\ shownCards' = ShownAfter(loanView, loanView', shownCards)
    /\ renderedLoan' = RenderedAfter(loanView, loanView', activeLoanId', renderedLoan)
    /\ UNCHANGED backVars

\* el.loanScheduleApplyBtn: loadLoanSchedule()
ClickLoanScheduleApply ==
    /\ loanView = "schedule"
    /\ uiOp' = "loanScheduleApply"
    /\ loadLoanSchedule
    /\ UNCHANGED <<loanView, loans, activeLoanId, activeLoan, activeLoanSummary>>
    /\ UNCHANGED <<loanExtraForm, loanExtraPreview, loanScenarioResult, today,
                   storedEvents, storedVersion, storedKeys, requestOutcome, keptPreview>>
    /\ UNCHANGED createVars
    /\ UNCHANGED dateVars
    /\ UNCHANGED rateVars
    /\ UNCHANGED loanVars
    /\ UNCHANGED engineVars
    /\ UNCHANGED shellVars

\* the user fills in the page and the page size of the schedule view
PageTexts == {"", "0", "-3", "2", "60", "500", "Infinity", "abc"}

InputLoanSchedule ==
    /\ loanView = "schedule"
    /\ \E page \in PageTexts, size \in PageTexts :
          /\ [page |-> page, page_size |-> size] # loanScheduleInputs
          /\ loanScheduleInputs' = [page |-> page, page_size |-> size]
    /\ UNCHANGED <<sent, uiOp>>
    /\ UNCHANGED <<loanView, loans, activeLoanId, activeLoan, activeLoanSummary>>
    /\ UNCHANGED cardVars
    /\ UNCHANGED createVars
    /\ UNCHANGED dateVars
    /\ UNCHANGED rateVars
    /\ UNCHANGED loanVars
    /\ UNCHANGED engineVars
    /\ UNCHANGED <<viewVars, openVars, loaderVars, searchVars, wizardVars>>

\* el.loanActionExtraBtn: the date field is set to today if it is empty
ClickLoanActionExtra ==
    /\ loanView = "card"
    /\ uiOp' = "loanActionExtra"
    /\ loanView' = "extra"
    /\ sent' = <<>>
    /\ loanExtraForm' = [loanExtraForm EXCEPT !.date = IF @ = EmptyText THEN today ELSE @]
    /\ loanExtraPreview' = NothingShown
    /\ UNCHANGED <<loans, activeLoanId, activeLoan, activeLoanSummary>>
    /\ UNCHANGED <<loanScenarioResult, loanScheduleMeta, today,
                   storedEvents, storedVersion, storedKeys, requestOutcome, keptPreview>>
    /\ UNCHANGED createVars
    /\ UNCHANGED dateVars
    /\ UNCHANGED rateVars
    /\ UNCHANGED loanVars
    /\ UNCHANGED engineVars
    /\ shownCards' = ShownAfter(loanView, loanView', shownCards)
    /\ renderedLoan' = RenderedAfter(loanView, loanView', activeLoanId', renderedLoan)
    /\ UNCHANGED backVars

\* el.loanActionScenarioBtn
ClickLoanActionScenario ==
    /\ loanView = "card"
    /\ uiOp' = "loanActionScenario"
    /\ loanView' = "scenario"
    /\ sent' = <<>>
    /\ loanScenarioResult' = NothingShown
    /\ UNCHANGED <<loans, activeLoanId, activeLoan, activeLoanSummary>>
    /\ UNCHANGED <<loanExtraForm, loanExtraPreview, loanScheduleMeta, today,
                   storedEvents, storedVersion, storedKeys, requestOutcome, keptPreview>>
    /\ UNCHANGED createVars
    /\ UNCHANGED dateVars
    /\ UNCHANGED rateVars
    /\ UNCHANGED loanVars
    /\ UNCHANGED engineVars
    /\ shownCards' = ShownAfter(loanView, loanView', shownCards)
    /\ renderedLoan' = RenderedAfter(loanView, loanView', activeLoanId', renderedLoan)
    /\ UNCHANGED backVars

\* el.loanScheduleBackBtn, el.loanExtraBackBtn, el.loanScenarioBackBtn:
\* openLoanCard(state.budget.activeLoanId)
ClickLoanBack ==
    /\ loanView \in {"schedule", "extra", "scenario"}
    /\ uiOp' = "loanBack"
    /\ IF activeLoanId = 0
       THEN /\ sent' = <<>>
            /\ UNCHANGED <<activeLoan, activeLoanSummary, loanView>>
       ELSE /\ sent' = OpenLoanCardRequests(activeLoanId)
            /\ activeLoan' = StoredLoan(activeLoanId, ServerLoan.annual_rate)
            /\ activeLoanSummary' = StoredSummary(activeLoanId)
            /\ loanView' = "card"
    /\ UNCHANGED <<loans, activeLoanId>>
    /\ UNCHANGED cardVars
    /\ UNCHANGED createVars
    /\ UNCHANGED dateVars
    /\ UNCHANGED rateVars
    /\ UNCHANGED loanVars
    /\ UNCHANGED engineVars
    /\ shownCards' = ShownAfter(loanView, loanView', shownCards)
    /\ renderedLoan' = RenderedAfter(loanView, loanView', activeLoanId', renderedLoan)
    /\ UNCHANGED backVars

\* the user fills in the amount and the date of the extra-payment form
CardForms ==
    {ExtraForm(amount, date, "ONE_TIME", "REDUCE_TERM") :
        amount \in {"", "5000", "100000"}, date \in {EmptyText, CardDay}}

InputLoanExtra ==
    /\ loanView = "extra"
    /\ \E form \in CardForms :
          /\ form # loanExtraForm
          /\ loanExtraForm' = form
    /\ UNCHANGED sessionVars
    /\ UNCHANGED <<loanExtraPreview, loanScenarioResult, loanScheduleMeta, today,
                   storedEvents, storedVersion, storedKeys, requestOutcome, keptPreview>>
    /\ UNCHANGED createVars
    /\ UNCHANGED dateVars
    /\ UNCHANGED rateVars
    /\ UNCHANGED loanVars
    /\ UNCHANGED engineVars
    /\ UNCHANGED shellVars

\* el.loanExtraSaveBtn: saveExtraPayment(), the toast and openLoanCard; a
\* failure (a text that is no amount, a request or an answer lost, a refusal)
\* is toasted.  The request does not reach the store ("lost"), reaches it
\* without the answer coming back ("unanswered"), or is answered
ClickLoanExtraSave ==
    /\ loanView = "extra"
    /\ uiOp' = "loanExtraSave"
    /\ IF activeLoanId = 0 \/ MoneyError(loanExtraForm.amount) # "ok"
       THEN /\ sent' = <<>>
            /\ UNCHANGED <<storedEvents, storedVersion, storedKeys, requestOutcome>>
            /\ UNCHANGED <<activeLoan, activeLoanSummary, loanView>>
       ELSE LET request == ExtraPaymentRequest(activeLoanId, loanExtraForm)
            IN
            \E answer \in {ServerAnswer(request, storedEvents, storedVersion, storedKeys)} :
            \E delivery \in {"lost", "unanswered", "answered"} :
               LET saved == delivery = "answered" /\ answer.status \in {"ok", "replayed"}
               IN  /\ storedEvents' = IF delivery = "lost" THEN storedEvents
                                      ELSE answer.events
                   /\ storedVersion' = IF delivery = "lost" THEN storedVersion
                                       ELSE answer.version
                   /\ storedKeys' = IF delivery = "lost" THEN storedKeys ELSE answer.keys
                   /\ requestOutcome' =
                          [status |-> IF delivery = "lost" THEN "lost" ELSE answer.status,
                           against |-> loanScheduleMeta, current |-> storedVersion]
                   /\ sent' = IF saved THEN <<request>> \o OpenLoanCardRequests(activeLoanId)
                              ELSE <<request>>
                   /\ activeLoan' = IF saved
                                    THEN StoredLoan(activeLoanId, ServerLoan.annual_rate)
                                    ELSE activeLoan
                   /\ activeLoanSummary' = IF saved THEN StoredSummary(activeLoanId)
                                           ELSE activeLoanSummary
                   /\ loanView' = IF saved THEN "card" ELSE loanView
    /\ UNCHANGED <<loans, activeLoanId>>
    /\ UNCHANGED <<loanExtraForm, loanExtraPreview, loanScenarioResult, loanScheduleMeta,
                   today, keptPreview>>
    /\ UNCHANGED createVars
    /\ UNCHANGED dateVars
    /\ UNCHANGED rateVars
    /\ UNCHANGED loanVars
    /\ UNCHANGED engineVars
    /\ shownCards' = ShownAfter(loanView, loanView', shownCards)
    /\ renderedLoan' = RenderedAfter(loanView, loanView', activeLoanId', renderedLoan)
    /\ UNCHANGED backVars

\* another session of the application commits an extra payment of its own
\* to the same loan
OtherSessionCommits ==
    LET request == ExtraPaymentRequest(1, ExtraForm("5000", CardDay, "MONTHLY",
                                                    "REDUCE_TERM"))
    IN  \E answer \in {ServerAnswer(request, storedEvents, storedVersion, storedKeys)} :
        /\ answer.status = "ok"
        /\ storedEvents' = answer.events
        /\ storedVersion' = answer.version
        /\ storedKeys' = answer.keys
        /\ UNCHANGED <<loanExtraForm, loanExtraPreview, loanScenarioResult,
                       loanScheduleMeta, today, requestOutcome, keptPreview>>
        /\ UNCHANGED uiVars
        /\ UNCHANGED dateVars
        /\ UNCHANGED rateVars
        /\ UNCHANGED loanVars
        /\ UNCHANGED engineVars
        /\ UNCHANGED shellVars

CommitInit ==
    /\ CardOpen
    /\ loanExtraForm \in CardForms
    /\ storedEvents = <<>>
    /\ storedVersion = 0
    /\ storedKeys = {}

CommitNext ==
    \/ ClickLoanActionSchedule
    \/ ClickLoanActionExtra
    \/ InputLoanExtra
    \/ ClickLoanExtraSave
    \/ ClickLoanBack
    \/ OtherSessionCommits

SpecCommit == CommitInit /\ [][CommitNext]_vars

\* a preview run: what went in and what came out
PreviewRun(kind, events, answer) ==
    [kind |-> kind, form |-> loanExtraForm, loan |-> activeLoan,
     version |-> storedVersion, clock |-> today, events |-> events,
     output |-> AnswerOutput(answer)]

\* el.loanExtraPreviewBtn: previewExtraPayment(); a failure is toasted
ClickLoanExtraPreview ==
    /\ loanView = "extra"
    /\ uiOp' = "loanExtraPreview"
    /\ IF activeLoanId = 0 \/ MoneyError(loanExtraForm.amount) # "ok"
       THEN /\ sent' = <<>>
            /\ UNCHANGED <<storedEvents, storedVersion, storedKeys, requestOutcome>>
            /\ UNCHANGED <<loanExtraPreview, keptPreview>>
       ELSE LET events == <<ExtraEventOfForm(loanExtraForm)>>
                request == PreviewRequest(activeLoanId, events)
            IN
            \E answer \in {ServerAnswer(request, storedEvents, storedVersion, storedKeys)} :
               \E delivered \in BOOLEAN :
                   /\ sent' = <<request>>
                   /\ storedEvents' = IF delivered THEN answer.events ELSE storedEvents
                   /\ storedVersion' = IF delivered THEN answer.version ELSE storedVersion
                   /\ storedKeys' = IF delivered THEN answer.keys ELSE storedKeys
                   /\ requestOutcome' =
                          [status |-> IF delivered THEN answer.status ELSE "lost",
                           against |-> loanScheduleMeta, current |-> storedVersion]
                   /\ loanExtraPreview' = IF delivered /\ answer.status = "ok"
                                          THEN Shown(answer.data) ELSE loanExtraPreview
                   /\ keptPreview' = IF delivered /\ keptPreview = NoPreview
                                     THEN PreviewRun("form", events, answer)
                                     ELSE keptPreview
    /\ UNCHANGED <<loanView, loans, activeLoanId, activeLoan, activeLoanSummary>>
    /\ UNCHANGED <<loanExtraForm, loanScenarioResult, loanScheduleMeta, today>>
    /\ UNCHANGED createVars
    /\ UNCHANGED dateVars
    /\ UNCHANGED rateVars
    /\ UNCHANGED loanVars
    /\ UNCHANGED engineVars
    /\ UNCHANGED shellVars

Presets == {"plus5k", "one100k", "rateMinus2", "holiday3"}

\* a button with data-loan-preset: runScenarioPreset(preset); a failure is
\* toasted.  uiOp names the button by its preset
ClickLoanPreset(preset) ==
    /\ loanView = "scenario"
    /\ uiOp' = preset
    /\ IF activeLoanId = 0
       THEN /\ sent' = <<>>
            /\ UNCHANGED <<storedEvents, storedVersion, storedKeys, requestOutcome>>
            /\ UNCHANGED <<loanScenarioResult, keptPreview>>
       ELSE LET events == buildLoanPresetEvent(preset, loanExtraForm.date, today,
                                               activeLoan)
                request == PreviewRequest(activeLoanId, events)
            IN
            \E answer \in {ServerAnswer(request, storedEvents, storedVersion, storedKeys)} :
               \E delivered \in BOOLEAN :
                   /\ sent' = <<request>>
                   /\ storedEvents' = IF delivered THEN answer.events ELSE storedEvents
                   /\ storedVersion' = IF delivered THEN answer.version ELSE storedVersion
                   /\ storedKeys' = IF delivered THEN answer.keys ELSE storedKeys
                   /\ requestOutcome' =
                          [status |-> IF delivered THEN answer.status ELSE "lost",
                           against |-> loanScheduleMeta, current |-> storedVersion]
                   /\ loanScenarioResult' = IF delivered /\ answer.status = "ok"
                                            THEN Shown(answer.data) ELSE loanScenarioResult
                   /\ keptPreview' = IF delivered /\ keptPreview = NoPreview
                                     THEN PreviewRun(preset, events, answer)
                                     ELSE keptPreview
    /\ UNCHANGED <<loanView, loans, activeLoanId, activeLoan, activeLoanSummary>>
    /\ UNCHANGED <<loanExtraForm, loanExtraPreview, loanScheduleMeta, today>>
    /\ UNCHANGED createVars
    /\ UNCHANGED dateVars
    /\ UNCHANGED rateVars
    /\ UNCHANGED loanVars
    /\ UNCHANGED engineVars
    /\ UNCHANGED shellVars

\* midnight: fmtDate(0) gives the next day from now on
DayPasses ==
    /\ today < ClockEnd
    /\ today' = addDaysYmd(today, 1)
    /\ UNCHANGED <<loanExtraForm, loanExtraPreview, loanScenarioResult, loanScheduleMeta,
                   storedEvents, storedVersion, storedKeys, requestOutcome, keptPreview>>
    /\ UNCHANGED uiVars
    /\ UNCHANGED dateVars
    /\ UNCHANGED rateVars
    /\ UNCHANGED loanVars
    /\ UNCHANGED engineVars
    /\ UNCHANGED shellVars

\* the log of the loan before the previews: empty, or one payment committed
PreviewLogs ==
    {<<>>, <<ExtraPayment(YmdText(2024, 1, 31), 50000, "ONE_TIME", "REDUCE_TERM")>>}

PreviewForms ==
    {ExtraForm("", EmptyText, "ONE_TIME", "REDUCE_TERM"),
     ExtraForm("5000", EmptyText, "ONE_TIME", "REDUCE_PAYMENT"),
     ExtraForm("5000", CardDay, "MONTHLY", "REDUCE_TERM")}

PreviewInit ==
    /\ CardOpen
    /\ loanExtraForm \in PreviewForms
    /\ storedEvents \in PreviewLogs
    /\ storedVersion = Len(storedEvents)
    /\ storedKeys = {IdempotencyKey(1, storedEvents[j].date, storedEvents[j].amount,
                                    storedEvents[j].mode, storedEvents[j].strategy) :
                        j \in 1..Len(storedEvents)}

PreviewNext ==
    \/ ClickLoanActionExtra
    \/ ClickLoanActionScenario
    \/ ClickLoanExtraPreview
    \/ \E preset \in Presets : ClickLoanPreset(preset)
    \/ ClickLoanBack
    \/ DayPasses

SpecPreview == PreviewInit /\ [][PreviewNext]_vars

(***************************************************************************)
(* The extra-payment form with amounts that are no positive number:        *)
(* preview, save and the presets.                                          *)
(***************************************************************************)
AmountTexts == {"", "0", "-5", "abc", "5000", "100000"}

AmountForms ==
    {ExtraForm(amount, date, "ONE_TIME", "REDUCE_TERM") :
        amount \in AmountTexts, date \in {EmptyText, CardDay}}

AmountInit ==
    /\ CardOpen
    /\ loanExtraForm \in AmountForms
    /\ storedEvents = <<>>
    /\ storedVersion = 0
    /\ storedKeys = {}

AmountNext ==
    \/ ClickLoanActionExtra
    \/ ClickLoanActionScenario
    \/ ClickLoanExtraPreview
    \/ ClickLoanExtraSave
    \/ \E preset \in Presets : ClickLoanPreset(preset)
    \/ ClickLoanBack

SpecAmount == AmountInit /\ [][AmountNext]_vars

(***************************************************************************)
(* The schedule view: its page and page-size inputs.                       *)
(***************************************************************************)
ScheduleInit ==
    /\ CardOpen
    /\ loanExtraForm = NoExtraForm
    /\ storedEvents = <<>>
    /\ storedVersion = 0
    /\ storedKeys = {}

ScheduleNext ==
    \/ ClickLoanActionSchedule
    \/ InputLoanSchedule
    \/ ClickLoanScheduleApply
    \/ ClickLoanBack

SpecSchedule == ScheduleInit /\ [][ScheduleNext]_vars

(***************************************************************************)
(* Loan card with a reliable network: every commit request reaches the     *)
(* store and its answer reaches the client, so a save the user repeats is  *)
(* never the retry of a save they saw fail.                                *)
(***************************************************************************)
\* the save handler when the request it sends, if any, is answered
ClickLoanExtraSaveAnswered ==
    /\ ClickLoanExtraSave
    /\ \/ sent' = <<>>
       \/ requestOutcome'.status \notin {"ok", "replayed", "lost"}
       \/ loanView' = "card"

RepeatNext ==
    \/ ClickLoanActionExtra
    \/ InputLoanExtra
    \/ ClickLoanExtraSaveAnswered
    \/ ClickLoanBack

SpecRepeat == CommitInit /\ [][RepeatNext]_vars

(***************************************************************************)
(* Loans tab: openLoanCard and the tab bar as asynchronous handlers.  A    *)
(* handler runs up to its next await in one step and goes on in a later    *)
(* step when the request it waits for is answered; answers come in any     *)
(* order.  The loader of api() neither reads nor writes the variables of   *)
(* these handlers and is modelled with the loader below.                   *)
(***************************************************************************)
\* handlers that may wait for an answer at the same time
MaxCalls == 2

\* the tabs of #tabbarBudget the user switches between
BudgetTabs == {"overview", "income", "loans"}

\* the cards of the loan sub-views (every view of setLoanView but the list)
LoanSubViewCards == {"create", "card", "schedule", "extra", "scenario", "tips"}

\* a handler waiting: openLoanCard(loanId) for its loan or its schedule, a
\* tab button for the dashboard
OpenCall(loanId, tab, stage) == [loanId |-> loanId, tab |-> tab, stage |-> stage]

Without(calls_, i) == SubSeq(calls_, 1, i - 1) \o SubSeq(calls_, i + 1, Len(calls_))

openRest == <<createVars, cardVars, dateVars, rateVars, loanVars, engineVars,
              loanScheduleInputs, loaderVars, searchVars, wizardVars, loans>>

\* the button of a row of the loans list: openLoanCard(loan.id) up to its
\* first await
ClickLoanRow ==
    /\ "list" \in shownCards
    /\ Len(openCalls) < MaxCalls
    /\ \E k \in 1..Len(loans) :
          /\ activeLoanId' = loans[k]
          /\ openCalls' = Append(openCalls, OpenCall(loans[k], "", "loan"))
          /\ sent' = <<[type |-> "GetLoan", loan_id |-> loans[k]]>>
    /\ uiOp' = "loanRow"
    /\ UNCHANGED <<loanView, activeLoan, activeLoanSummary, activeTab>>
    /\ UNCHANGED viewVars
    /\ UNCHANGED openRest

\* openLoanCard after its first await: the loan is stored and the schedule
\* asked for, or api() threw
OpenLoanAnswered ==
    \E i \in 1..Len(openCalls) :
       /\ openCalls[i].stage = "loan"
       /\ \E ok \in BOOLEAN :
             IF ok
             THEN /\ activeLoan' = StoredLoan(openCalls[i].loanId, ServerLoan.annual_rate)
                  /\ activeLoanSummary' = StoredSummary(openCalls[i].loanId)
                  /\ openCalls' = [openCalls EXCEPT ![i].stage = "schedule"]
                  /\ sent' = <<OpenLoanCardRequests(openCalls[i].loanId)[2]>>
             ELSE /\ openCalls' = Without(openCalls, i)
                  /\ UNCHANGED <<activeLoan, activeLoanSummary, sent>>
       /\ UNCHANGED <<loanView, activeLoanId, activeTab, uiOp>>
       /\ UNCHANGED viewVars
       /\ UNCHANGED openRest

\* openLoanCard after its second await: renderLoanCard of the loan it
\* fetched and setLoanView("card"), or api() threw
OpenScheduleAnswered ==
    \E i \in 1..Len(openCalls) :
       /\ openCalls[i].stage = "schedule"
       /\ openCalls' = Without(openCalls, i)
       /\ \E ok \in BOOLEAN :
             IF ok
             THEN /\ renderedLoan' = openCalls[i].loanId
                  /\ loanView' = "card"
                  /\ shownCards' = {"card"}
             ELSE UNCHANGED <<renderedLoan, loanView, shownCards>>
       /\ UNCHANGED <<activeLoanId, activeLoan, activeLoanSummary, activeTab, sent, uiOp>>
       /\ UNCHANGED openRest

\* a button of the tab bar up to its await of loadBudgetDashboard
ClickBudgetTab ==
    /\ Len(openCalls) < MaxCalls
    /\ \E tab \in BudgetTabs :
          openCalls' = Append(openCalls, OpenCall(0, tab, "dashboard"))
    /\ uiOp' = "budgetTab"
    /\ sent' = <<[type |-> "GetDashboard"]>>
    /\ UNCHANGED <<loanView, activeLoanId, activeLoan, activeLoanSummary, activeTab>>
    /\ UNCHANGED viewVars
    /\ UNCHANGED openRest

\* the tab button after its await: setBudgetTab(tab) hides the cards of the
\* loan sub-views, shows the list card on the loans tab and sets loanView to
\* "list" there; or loadBudgetDashboard threw
BudgetDashboardAnswered ==
    \E i \in 1..Len(openCalls) :
       /\ openCalls[i].stage = "dashboard"
       /\ openCalls' = Without(openCalls, i)
       /\ \E ok \in BOOLEAN :
             IF ok
             THEN /\ activeTab' = openCalls[i].tab
                  /\ shownCards' = IF openCalls[i].tab = "loans" THEN {"list"} ELSE {}
                  /\ loanView' = IF openCalls[i].tab = "loans" THEN "list" ELSE loanView
                  /\ sent' = IF openCalls[i].tab = "loans" THEN <<[type |-> "GetLoans"]>>
                             ELSE <<>>
             ELSE UNCHANGED <<activeTab, shownCards, loanView, sent>>
       /\ UNCHANGED <<activeLoanId, activeLoan, activeLoanSummary, renderedLoan, uiOp>>
       /\ UNCHANGED openRest

\* the "back to the list" button of the loan card
ClickLoanBackToList ==
    /\ "card" \in shownCards
    /\ uiOp' = "loanBackToList"
    /\ loanView' = "list"
    /\ shownCards' = {"list"}
    /\ sent' = <<[type |-> "GetLoans"]>>
    /\ UNCHANGED <<activeLoanId, activeLoan, activeLoanSummary, activeTab, openCalls,
                   renderedLoan>>
    /\ UNCHANGED openRest

\* the loans tab on the list of two loans
OpenInit ==
    /\ loanForm = NoForm
    /\ loanRateRows = <<>>
    /\ loanCreateError = ""
    /\ loanView = "list"
    /\ loans = <<1, 2>>
    /\ activeLoanId = 0
    /\ activeLoan = NoLoan
    /\ activeLoanSummary = NoSummary
    /\ sent = <<>>
    /\ uiOp = "none"
    /\ DateIdle
    /\ RateIdle
    /\ LoanIdle
    /\ CardIdle
    /\ EngineIdle
    /\ ShellAt("list", 0)

OpenNext ==
    \/ ClickLoanRow
    \/ OpenLoanAnswered
    \/ OpenScheduleAnswered
    \/ ClickBudgetTab
    \/ BudgetDashboardAnswered
    \/ ClickLoanBackToList

SpecOpen == OpenInit /\ [][OpenNext]_vars

(***************************************************************************)
(* The global loader: beginLoading and endLoading around every request of  *)
(* api and apiLoanCreate, and the two timers that show and hide the        *)
(* loader.  Requests settle and timers fire in any order.                  *)
(***************************************************************************)
\* requests that may be under way at the same time
MaxPending == 3

\* timers that may be pending at the same time
MaxTimers == 3

\* a timer set with window.setTimeout and not fired or cleared yet
Timer(id, kind) == [id |-> id, kind |-> kind]

\* the id window.setTimeout returns: one that no pending timer has and that
\* state.loadingShowTimer does not hold
FreshTimer ==
    CHOOSE n \in 1..(MaxTimers + 2) :
       /\ n # loadingShowTimer
       /\ \A t \in timers : t.id # n
       /\ \A m \in 1..(n - 1) : m = loadingShowTimer \/ \E t \in timers : t.id = m

FreshCall ==
    CHOOSE n \in 1..(MaxPending + 1) :
       /\ \A c \in calls : c.id # n
       /\ \A m \in 1..(n - 1) : \E c \in calls : c.id = m

\* window.clearTimeout(state.loadingShowTimer)
ClearedShowTimer(pending, id) == {t \in pending : t.id # id}

HideTimers(pending) == {t \in pending : t.kind = "hide"}

\* a faulty variant of EndsLoading: endLoading after the await, not in finally
EndsLoadingOnSuccess(skipLoader, ok) == ~skipLoader /\ ok

\* the finally block of api and apiLoanCreate: endLoading runs when the
\* request failed as when it succeeded, unless skipLoader
EndsLoading(skipLoader, ok) == ~skipLoader

\* a faulty variant of EndLoadingHides: endLoading without hideLoader
EndLoadingHidesNever(count) == FALSE

\* endLoading goes on to clearTimeout and hideLoader when the count is 0
EndLoadingHides(count) == count = 0

\* beginLoading: the count goes up; the first of the requests under way
\* clears the show timer and sets a new one
beginLoading ==
    /\ loadingCount' = loadingCount + 1
    /\ IF loadingCount + 1 > 1
       THEN UNCHANGED <<timers, loadingShowTimer>>
       ELSE /\ timers' = ClearedShowTimer(timers, loadingShowTimer)
                            \cup {Timer(FreshTimer, "show")}
            /\ loadingShowTimer' = FreshTimer

\* endLoading: the count goes down, not below 0; the last of the requests
\* under way clears the show timer and calls hideLoader, which sets a timer
endLoading ==
    /\ loadingCount' = IF loadingCount - 1 > 0 THEN loadingCount - 1 ELSE 0
    /\ IF EndLoadingHides(loadingCount')
       THEN timers' = ClearedShowTimer(timers, loadingShowTimer)
                         \cup {Timer(FreshTimer, "hide")}
       ELSE UNCHANGED timers
    /\ UNCHANGED loadingShowTimer

loaderRest == <<uiVars, cardVars, dateVars, rateVars, loanVars, engineVars, viewVars,
                loanScheduleInputs, openVars, searchVars, wizardVars>>

\* api(path, options) up to its await of fetch
CallApi ==
    /\ Cardinality(calls) < MaxPending
    /\ \E skipLoader \in BOOLEAN :
          /\ calls' = calls \cup {[id |-> FreshCall, skipLoader |-> skipLoader,
                                   fn |-> "api"]}
          /\ IF skipLoader THEN UNCHANGED <<loadingCount, timers, loadingShowTimer>>
             ELSE beginLoading
    /\ UNCHANGED <<loaderShown, loadingVisibleAt>>
    /\ UNCHANGED loaderRest

\* apiLoanCreate(payload) up to its await of fetch
CallApiLoanCreate ==
    /\ Cardinality(calls) < MaxPending
    /\ calls' = calls \cup {[id |-> FreshCall, skipLoader |-> FALSE,
                             fn |-> "apiLoanCreate"]}
    /\ beginLoading
    /\ UNCHANGED <<loaderShown, loadingVisibleAt>>
    /\ UNCHANGED loaderRest

\* a request settles: the call returns or throws, through its finally block
CallSettles ==
    \E c \in calls :
    \E ok \in BOOLEAN :
       /\ (EndsLoading(c.skipLoader, ok) /\ loadingCount <= 1)
             => Cardinality(timers) < MaxTimers
       /\ calls' = calls \ {c}
       /\ IF EndsLoading(c.skipLoader, ok) THEN endLoading
          ELSE UNCHANGED <<loadingCount, timers, loadingShowTimer>>
       /\ UNCHANGED <<loaderShown, loadingVisibleAt>>
       /\ UNCHANGED loaderRest

\* the timer of beginLoading fires: showLoader if a request is under way
ShowTimerFires ==
    \E t \in timers :
       /\ t.kind = "show"
       /\ timers' = timers \ {t}
       /\ loaderShown' = IF loadingCount > 0 THEN TRUE ELSE loaderShown
       /\ loadingVisibleAt' = IF loadingCount > 0 THEN 1 ELSE loadingVisibleAt
       /\ UNCHANGED <<loadingCount, loadingShowTimer, calls>>
       /\ UNCHANGED loaderRest

\* the timer of hideLoader fires: nothing if a request is under way, else
\* the loader is hidden
HideTimerFires ==
    \E t \in timers :
       /\ t.kind = "hide"
       /\ timers' = timers \ {t}
       /\ loaderShown' = IF loadingCount > 0 THEN loaderShown ELSE FALSE
       /\ UNCHANGED <<loadingCount, loadingShowTimer, loadingVisibleAt, calls>>
       /\ UNCHANGED loaderRest

LoaderInit ==
    /\ DateIdle
    /\ RateIdle
    /\ LoanIdle
    /\ UiIdle
    /\ CardIdle
    /\ EngineIdle
    /\ ShellIdle

LoaderNext ==
    \/ CallApi
    \/ CallApiLoanCreate
    \/ CallSettles
    \/ ShowTimerFires
    \/ HideTimerFires

SpecLoader == LoaderInit /\ [][LoaderNext]_vars

(***************************************************************************)
(* A search box of bindSearch (the trade box: no searchFn, no              *)
(* alwaysShowWhenEmpty): the input handler with its 300 ms timer, the      *)
(* clear button, and the answers of the search requests, in any order.     *)
(* The selection (getSelected, setSelected) is left out.                   *)
(***************************************************************************)
\* search requests that may be under way at the same time
MaxSearches == 2

\* what the user leaves in the box
SearchTexts == {"", " ", "a", "ab"}

\* inputEl.value.trim()
Trimmed(text) == IF text = " " THEN "" ELSE text

searchRest == <<uiVars, cardVars, dateVars, rateVars, loanVars, engineVars, viewVars,
                loanScheduleInputs, openVars, loaderVars, wizardVars>>

\* the "input" handler: the pending timer is cleared and a new one set
InputSearch ==
    /\ \E text \in SearchTexts :
          /\ text # searchInput
          /\ searchInput' = text
    /\ searchTimer' = TRUE
    /\ UNCHANGED <<searchCalls, searchResult, searchIssued>>
    /\ UNCHANGED searchRest

\* the timer fires: an empty query empties the list, any other is sent
SearchTimerFires ==
    /\ searchTimer
    /\ searchTimer' = FALSE
    /\ \E q \in {Trimmed(searchInput)} :
          /\ searchIssued' = q
          /\ IF q = ""
             THEN /\ searchResult' = SearchShows("none", "")
                  /\ UNCHANGED searchCalls
             ELSE /\ Len(searchCalls) < MaxSearches
                  /\ searchCalls' = Append(searchCalls, q)
                  /\ UNCHANGED searchResult
    /\ UNCHANGED searchInput
    /\ UNCHANGED searchRest

\* the timer callback after its await: renderSearchList of the answer, or
\* renderError when the request failed
SearchAnswered ==
    \E i \in 1..Len(searchCalls) :
    \E ok \in BOOLEAN :
       /\ searchCalls' = SubSeq(searchCalls, 1, i - 1)
                            \o SubSeq(searchCalls, i + 1, Len(searchCalls))
       /\ searchResult' = IF ok THEN SearchShows("list", searchCalls[i])
                          ELSE SearchShows("error", "")
       /\ UNCHANGED <<searchInput, searchTimer, searchIssued>>
       /\ UNCHANGED searchRest

\* the clear button: clearSelection empties the box and the list
ClickSearchClear ==
    /\ searchInput' = ""
    /\ searchResult' = SearchShows("none", "")
    /\ searchIssued' = ""
    /\ UNCHANGED <<searchTimer, searchCalls>>
    /\ UNCHANGED searchRest

SearchInit ==
    /\ DateIdle
    /\ RateIdle
    /\ LoanIdle
    /\ UiIdle
    /\ CardIdle
    /\ EngineIdle
    /\ ShellIdle

SearchNext ==
    \/ InputSearch
    \/ SearchTimerFires
    \/ SearchAnswered
    \/ ClickSearchClear

SpecSearch == SearchInit /\ [][SearchNext]_vars

(***************************************************************************)
(* The onboarding wizard: Back, Skip and Next.  The Next handler reads     *)
(* state.budget.step again at each of its three checks, also after an      *)
(* await; a handler waiting for api() goes on in a later step, and the     *)
(* buttons stay usable meanwhile.                                          *)
(***************************************************************************)
\* Next handlers that may wait for an answer at the same time
MaxNext == 2

\* what the money fields of the wizard hold when they are read
WizardTexts == {"", "5000"}

\* a Next handler waiting: the step shown when it was clicked and the
\* request it waits for
NextCall(at, waits) == [at |-> at, waits |-> waits]

\* how a run of the Next handler leaves off: the step, the wait it entered
\* (if any), the request it sent (if any), and whether it ended in the
\* catch block with a toast
NextRun(step, pending, request, toasted) ==
    [step |-> step, pending |-> pending, request |-> request, toasted |-> toasted]

ProfileRequest(field) == [type |-> "PostProfile", field |-> field]

\* if (state.budget.step >= 5) { await api(... onboarding_completed ...) }
\* and otherwise state.budget.step += 1
NextFromOnboarding(step, at) ==
    IF step >= 5
    THEN NextRun(step, <<NextCall(at, "onboarding")>>,
                 <<ProfileRequest("onboarding_completed")>>, FALSE)
    ELSE NextRun(step + 1, <<>>, <<>>, FALSE)

\* if (state.budget.step === 4) { parseMoneyInput; await api(...) } and on
NextFromExpenses(step, at, expRaw) ==
    IF step = 4
    THEN IF MoneyError(expRaw) # "ok" THEN NextRun(step, <<>>, <<>>, TRUE)
         ELSE NextRun(step, <<NextCall(at, "expenses")>>,
                      <<ProfileRequest("expenses_base")>>, FALSE)
    ELSE NextFromOnboarding(step, at)

\* if (state.budget.step === 2) { parseMoneyInput; await api(...) } and on
NextFromIncome(step, at, incomeRaw, expRaw) ==
    IF step = 2
    THEN IF MoneyError(incomeRaw) # "ok" THEN NextRun(step, <<>>, <<>>, TRUE)
         ELSE NextRun(step, <<NextCall(at, "income")>>,
                      <<ProfileRequest("income_monthly")>>, FALSE)
    ELSE NextFromExpenses(step, at, expRaw)

\* the Next handler after the await it was in, the request answered
NextResumed(call, step, expRaw) ==
    IF call.waits = "income" THEN NextFromExpenses(step, call.at, expRaw)
    ELSE IF call.waits = "expenses" THEN NextFromOnboarding(step, call.at)
    ELSE IF call.waits = "onboarding"
    THEN NextRun(step, <<NextCall(call.at, "dashboard")>>, <<[type |-> "GetDashboard"]>>,
                 FALSE)
    ELSE NextRun(step, <<>>, <<>>, FALSE)

wizardRest == <<createVars, loanView, loans, activeLoanId, activeLoan, activeLoanSummary,
                cardVars, dateVars, rateVars, loanVars, engineVars, viewVars,
                loanScheduleInputs, openVars, loaderVars, searchVars>>

\* el.budgetBackBtn, shown from step 2 on
ClickBudgetBack ==
    /\ ~onboardingCompleted
    /\ budgetStep > 1
    /\ budgetStep' = IF budgetStep - 1 > 1 THEN budgetStep - 1 ELSE 1
    /\ uiOp' = "budgetBack"
    /\ UNCHANGED <<nextCalls, onboardingCompleted, sent>>
    /\ UNCHANGED wizardRest

\* el.budgetSkipBtn, shown at step 3
ClickBudgetSkip ==
    /\ ~onboardingCompleted
    /\ budgetStep = 3
    /\ budgetStep' = IF budgetStep + 1 < 5 THEN budgetStep + 1 ELSE 5
    /\ uiOp' = "budgetSkip"
    /\ UNCHANGED <<nextCalls, onboardingCompleted, sent>>
    /\ UNCHANGED wizardRest

\* el.budgetNextBtn up to its first await, or to its end
ClickBudgetNext ==
    /\ ~onboardingCompleted
    /\ Len(nextCalls) < MaxNext
    /\ \E incomeRaw, expRaw \in WizardTexts :
       \E run \in {NextFromIncome(budgetStep, budgetStep, incomeRaw, expRaw)} :
          /\ budgetStep' = run.step
          /\ nextCalls' = nextCalls \o run.pending
          /\ sent' = run.request
          /\ uiOp' = IF run.toasted THEN "budgetNextToast" ELSE "budgetNext"
    /\ UNCHANGED onboardingCompleted
    /\ UNCHANGED wizardRest

\* a Next handler goes on after its await: api() threw (toast), or it
\* returned and the handler runs to its next await or to its end;
\* completeBudgetOnboarding shows the result card in place of the wizard
BudgetNextAnswered ==
    \E i \in 1..Len(nextCalls) :
    \E ok \in BOOLEAN :
    \E expRaw \in WizardTexts :
    \E run \in {IF ok THEN NextResumed(nextCalls[i], budgetStep, expRaw)
                ELSE NextRun(budgetStep, <<>>, <<>>, TRUE)} :
       /\ budgetStep' = run.step
       /\ nextCalls' = Without(nextCalls, i) \o run.pending
       /\ sent' = run.request
       /\ uiOp' = IF run.toasted THEN "budgetNextToast" ELSE "budgetNext"
       /\ onboardingCompleted' = IF ok /\ nextCalls[i].waits = "dashboard" THEN TRUE
                                 ELSE onboardingCompleted
       /\ UNCHANGED wizardRest

WizardInit ==
    /\ DateIdle
    /\ RateIdle
    /\ LoanIdle
    /\ UiIdle
    /\ CardIdle
    /\ EngineIdle
    /\ ShellIdle

WizardNext ==
    \/ ClickBudgetBack
    \/ ClickBudgetSkip
    \/ ClickBudgetNext
    \/ BudgetNextAnswered

SpecWizard == WizardInit /\ [][WizardNext]_vars

(***************************************************************************)
(* All groups of operations together.                                      *)
(***************************************************************************)
Init ==
    DateInit \/ RateInit \/ LoanInit \/ CreateInit \/ EngineInit \/ CommitInit
    \/ PreviewInit \/ AmountInit \/ ScheduleInit \/ OpenInit \/ LoaderInit
    \/ SearchInit \/ WizardInit

Next ==
    DateNext \/ RateNext \/ LoanNext \/ CreateNext \/ EngineNext \/ CommitNext
    \/ PreviewNext \/ AmountNext \/ ScheduleNext \/ RepeatNext \/ OpenNext
    \/ LoaderNext \/ SearchNext \/ WizardNext

Spec == Init /\ [][Next]_vars

(***************************************************************************)
(* Rate-period validator.                                                  *)
(***************************************************************************)
ValidatorRan == rateFn = "normalizeAndValidateRatePeriods"
RowsWellFormed == \A i \in 1..Len(expenseRateRows) : RowError(expenseRateRows[i]) = "ok"

\* the periods of the form in the order of their start dates
SortedPeriods == SortByStart([i \in 1..Len(expenseRateRows) |-> ParsedRow(expenseRateRows[i])])

\* the periods before index i follow each other day by day
ContiguousUpTo(periods, i) ==
    \A k \in 1..(i - 1) :
        k + 1 <= Len(periods) =>
            CalendarNextDay(periods[k].end_date) = periods[k + 1].start_date

\* C1: a list the validator returns (directly or through the form) is sorted
\* by start_date, has start_date <= end_date in every period, has every
\* period start on the calendar day after the previous one ends, starts at or
\* before the loan start and ends at or after the loan end.
C1_ReturnedPeriodsCover ==
    (rateFn # "none" /\ rateOut.status = "returned") =>
        LET p == rateOut.periods
        IN  /\ Len(p) >= 1
            /\ \A i \in 1..Len(p) : p[i].start_date <= p[i].end_date
            /\ \A i \in 1..(Len(p) - 1) :
                  /\ p[i].start_date <= p[i + 1].start_date
                  /\ CalendarNextDay(p[i].end_date) = p[i + 1].start_date
            /\ p[1].start_date <= loanStartInput
            /\ p[Len(p)].end_date >= rateEnd

C1_Witness ==
    /\ ValidatorRan
    /\ rateOut.status = "returned"
    /\ Len(rateOut.periods) = 2
    /\ rateOut.periods[1].end_date = YmdText(2024, 2, 29)
    /\ rateOut.periods[2].start_date = YmdText(2024, 3, 1)

\* C2: with well-formed rows and the head covered, the first period (in start
\* order) that does not start on the day after the previous one ends makes
\* the validator fail: with the overlap error when it starts earlier, with
\* the gap error when it starts later, and either error names its range.
C2_OverlapGapNamed ==
    (ValidatorRan /\ RowsWellFormed /\ Len(expenseRateRows) >= 2
        /\ SortedPeriods[1].start_date <= loanStartInput) =>
        \A i \in 2..Len(SortedPeriods) :
            LET expected == CalendarNextDay(SortedPeriods[i - 1].end_date)
            IN  (ContiguousUpTo(SortedPeriods, i - 1)
                    /\ SortedPeriods[i].start_date # expected) =>
                    /\ rateOut.status = "thrown"
                    /\ rateOut.error =
                          (IF SortedPeriods[i].start_date < expected THEN "overlap" ELSE "gap")
                    /\ rateOut.from # EmptyText
                    /\ rateOut.to # EmptyText

\* C3: with well-formed rows, the validator fails with the missing-head error
\* when the earliest period starts after the loan start, and with the
\* missing-tail error (naming the loan end) when the head is covered, the
\* periods are contiguous and the last one ends before the loan end.
C3_HeadAndTailCoverage ==
    (ValidatorRan /\ RowsWellFormed /\ Len(expenseRateRows) >= 1) =>
        /\ (SortedPeriods[1].start_date > loanStartInput) =>
              (rateOut.status = "thrown" /\ rateOut.error = "missing-head")
        /\ (/\ SortedPeriods[1].start_date <= loanStartInput
            /\ ContiguousUpTo(SortedPeriods, Len(SortedPeriods))
            /\ SortedPeriods[Len(SortedPeriods)].end_date < rateEnd) =>
              (rateOut.status = "thrown" /\ rateOut.error = "missing-tail"
                  /\ rateOut.to = rateEnd)

C3_Witness ==
    /\ ValidatorRan /\ RowsWellFormed
    /\ Len(expenseRateRows) = 2
    /\ loanStartInput = YmdText(2024, 2, 28)
    /\ rateEnd = YmdText(2024, 3, 29)
    /\ rateOut.error = "missing-tail"
    /\ rateOut.to = YmdText(2024, 3, 29)

\* the text of a rate field holds a rate in [0,100] (an empty field holds none)
RateInRange(rateText) ==
    /\ rateText # ""
    /\ RateNumber(rateText).finite
    /\ RateNumber(rateText).value >= 0
    /\ RateNumber(rateText).value <= 10000

\* C4: one period with a rate in [0,100] spanning exactly
\* [loan_start, loan_end], loan_start <= loan_end, is accepted and returned
\* as the only period; so is the only row of the form when its dates are
\* empty and the form fills them with the start date and
\* add_months(start date, months - 1).
C4_SinglePeriodAccepted ==
    /\ (/\ ValidatorRan
        /\ Len(expenseRateRows) = 1
        /\ RateInRange(expenseRateRows[1].annual_rate)
        /\ expenseRateRows[1].start_date = loanStartInput
        /\ expenseRateRows[1].end_date = rateEnd
        /\ loanStartInput <= rateEnd) =>
            rateOut = Returned(<<ParsedRow(expenseRateRows[1])>>)
    /\ (/\ rateFn = "buildExpensePayloadFromForm"
        /\ Len(expenseRateRows) = 1
        /\ RateInRange(expenseRateRows[1].annual_rate)
        /\ expenseRateRows[1].start_date = EmptyText
        /\ expenseRateRows[1].end_date = EmptyText
        /\ loanStartInput # EmptyText
        /\ loanMonthsInput >= 1
        /\ rateOut.error \notin {"money-not-number", "money-not-positive"}) =>
            rateOut = Returned(<<[annual_rate |-> RateNumber(expenseRateRows[1].annual_rate).value,
                                  start_date |-> loanStartInput,
                                  end_date |-> CalendarAddMonths(loanStartInput, loanMonthsInput - 1)]>>)

C4_Witness ==
    /\ rateFn = "buildExpensePayloadFromForm"
    /\ Len(expenseRateRows) = 1
    /\ expenseRateRows[1].start_date = EmptyText
    /\ expenseRateRows[1].end_date = EmptyText
    /\ loanStartInput = YmdText(2024, 2, 29)
    /\ loanMonthsInput = 2
    /\ rateOut.status = "returned"
    /\ rateOut.periods[1].end_date = YmdText(2024, 3, 29)

\* C5: no list the validator returns holds a rate below 0 or above 100 (kept
\* in hundredths of a percent: above 10000).
C5_RatesWithinRange ==
    (rateFn # "none" /\ rateOut.status = "returned") =>
        \A i \in 1..Len(rateOut.periods) :
            /\ rateOut.periods[i].annual_rate >= 0
            /\ rateOut.periods[i].annual_rate <= 10000

(***************************************************************************)
(* Date arithmetic.                                                        *)
(***************************************************************************)
\* C6: addMonthsYmd shifts a calendar date by n calendar months (n of either
\* sign, across year ends) and sets the day to min(original day, last day of
\* the target month); 2024-01-31 + 1 is 2024-02-29 and 2023-01-31 + 1 is
\* 2023-02-28.
C6_AddMonthsClamps ==
    /\ (dateFn = "addMonthsYmd" /\ IsCalendarDate(dateYmd))
            => dateOut = CalendarAddMonths(dateYmd, dateN)
    /\ addMonthsYmd(YmdText(2024, 1, 31), 1) = YmdText(2024, 2, 29)
    /\ addMonthsYmd(YmdText(2023, 1, 31), 1) = YmdText(2023, 2, 28)

C6_Witness ==
    /\ dateFn = "addMonthsYmd"
    /\ dateYmd = YmdText(2024, 1, 31)
    /\ dateN = 1
    /\ dateOut = YmdText(2024, 2, 29)

\* C7: addDaysYmd is exact calendar day addition: one day after d is the next
\* calendar day, n >= 0 days after d is the n-th next calendar day, and
\* adding n days and then -n days gives d back.
C7_AddDaysExact ==
    (dateFn = "addDaysYmd" /\ IsCalendarDate(dateYmd)) =>
        /\ addDaysYmd(dateYmd, 1) = CalendarNextDay(dateYmd)
        /\ dateN >= 0 => dateOut = CalendarNextDayTimes(dateYmd, dateN)
        /\ addDaysYmd(dateOut, 0 - dateN) = dateYmd

C7_Witness ==
    /\ dateFn = "addDaysYmd"
    /\ dateYmd = YmdText(2024, 2, 28)
    /\ dateN = 2
    /\ dateOut = YmdText(2024, 3, 1)

\* C8: for an input that is not a calendar date (not of the form YYYY-MM-DD,
\* or of the form but no real date) addMonthsYmd and addDaysYmd fail: they
\* return neither a date nor the empty text.
C8_InvalidDateFails ==
    (dateFn \in {"addMonthsYmd", "addDaysYmd"} /\ ~IsCalendarDate(dateYmd)) =>
        (dateOut # EmptyText /\ ~IsCalendarDate(dateOut))

(***************************************************************************)
(* Loan calculator.  Results are compared as rational numbers              *)
(* [sign, num, den] with den > 0 (sign 0 for 0).                           *)
(***************************************************************************)
Rat(sign, num, den) == [sign |-> IF num = <<>> THEN 0 ELSE sign, num |-> num, den |-> den]

RatOfInt(n) == IF n < 0 THEN Rat(0 - 1, BigOfInt(0 - n), <<1>>) ELSE Rat(1, BigOfInt(n), <<1>>)

\* the exact value of a double
RatOfFl(a) ==
    IF a.e >= 0 THEN Rat(a.sign, BigShl(a.m, a.e), <<1>>)
    ELSE Rat(a.sign, a.m, BigShl(<<1>>, 0 - a.e))

RatNeg(x) == [x EXCEPT !.sign = 0 - x.sign]

RatAbs(x) == [x EXCEPT !.sign = IF x.sign = 0 THEN 0 ELSE 1]

RatMul(x, y) == Rat(x.sign * y.sign, BigMul(x.num, y.num), BigMul(x.den, y.den))

RatDiv(x, y) == Rat(x.sign * y.sign, BigMul(x.num, y.den), BigMul(x.den, y.num))

RatAdd(x, y) ==
    LET a == BigMul(x.num, y.den)
        b == BigMul(y.num, x.den)
        den == BigMul(x.den, y.den)
    IN  IF x.sign = 0 THEN y
        ELSE IF y.sign = 0 THEN x
        ELSE IF x.sign = y.sign THEN Rat(x.sign, BigAdd(a, b), den)
        ELSE IF BigLess(b, a) THEN Rat(x.sign, BigSub(a, b), den)
        ELSE Rat(y.sign, BigSub(b, a), den)

RatSub(x, y) == RatAdd(x, RatNeg(y))

RatLeq(x, y) == RatSub(y, x).sign >= 0

RatLess(x, y) == RatSub(y, x).sign > 0

\* the doubles a and b are the same number
FlEq(a, b) == RatSub(RatOfFl(a), RatOfFl(b)).sign = 0

\* x and y differ by at most a billionth of scale
RatClose(x, y, scale) ==
    RatLeq(RatMul(RatAbs(RatSub(x, y)), RatOfInt(1000000000)), RatAbs(scale))

\* a, rounded to the nearest 1/units, is c/units
FlRoundsTo(a, units, c) ==
    /\ RatLeq(RatDiv(RatOfInt(2 * c - 1), RatOfInt(2 * units)), RatOfFl(a))
    /\ RatLess(RatOfFl(a), RatDiv(RatOfInt(2 * c + 1), RatOfInt(2 * units)))

ValidLoanArgs ==
    /\ loanArgs.amount.kind = "num" /\ loanArgs.amount.value > 0
    /\ loanArgs.annualRate.kind = "num" /\ loanArgs.annualRate.value >= 0
    /\ loanArgs.months.kind = "num" /\ loanArgs.months.value > 0

AnnuityRan ==
    loanFn = "calculateLoanMetrics" /\ loanArgs.paymentType = "annuity" /\ ValidLoanArgs

ExampleLoan(paymentType) ==
    [amount |-> Num(1200000), annualRate |-> Num(1200), months |-> Num(12),
     paymentType |-> paymentType]

\* P*i*(1+i)^n / ((1+i)^n - 1) for i = r/100/12, r in hundredths of a percent
AnnuityFormula(P, r, n) ==
    LET i == RatDiv(RatOfInt(r), RatOfInt(120000))
        factor == Rat(1, BigPow(BigOfInt(120000 + r), n), BigPow(BigOfInt(120000), n))
    IN  RatDiv(RatMul(RatMul(RatOfInt(P), i), factor), RatSub(factor, RatOfInt(1)))

\* the formula of the annuity payment, its total and its overpayment, for
\* every valid P, r and n; zeroExact tells whether the overpayment at zero
\* rate is to be exactly 0 or 0 up to the rounding of the arithmetic
AnnuityFormulaHolds(zeroExact) ==
    AnnuityRan =>
        LET P == RatOfInt(loanArgs.amount.value)
            r == loanArgs.annualRate.value
            n == RatOfInt(loanArgs.months.value)
            pay == RatOfFl(loanOut.monthly_payment)
            total == RatOfFl(loanOut.total_payment)
            over == RatOfFl(loanOut.overpayment)
        IN  /\ loanOut.status = "returned"
            /\ loanOut.monthly_payment # FlNull
            /\ r = 0 => RatClose(pay, RatDiv(P, n), P)
            /\ r > 0 => RatClose(pay, AnnuityFormula(loanArgs.amount.value, r,
                                                     loanArgs.months.value), P)
            /\ RatClose(total, RatMul(pay, n), P)
            /\ RatClose(over, RatSub(total, P), P)
            /\ r = 0 => IF zeroExact THEN over.sign = 0 ELSE RatClose(over, RatOfInt(0), P)

DiffExampleRan ==
    loanFn = "calculateLoanMetrics" /\ loanArgs = ExampleLoan("diff")

\* C10 (as amended): for principal = 1,200,000, rate = 12%, term = 12 with
\* DIFFERENTIATED payments the calculator yields principal_part = 100,000, a
\* first_payment of about 112,000 and a last_payment of about 101,000.
C10_DiffExample ==
    DiffExampleRan =>
        /\ loanOut.status = "returned"
        /\ FlEq(DiffPrincipalPart(FlOfInt(loanArgs.amount.value),
                                   FlOfInt(loanArgs.months.value)), FlOfInt(100000))
        /\ FlRoundsTo(loanOut.first_payment, 1, 112000)
        /\ FlRoundsTo(loanOut.last_payment, 1, 101000)

\* C10 (as claimed): the same, with a last_payment of about 100,833.
C10_AsClaimed ==
    DiffExampleRan =>
        /\ loanOut.status = "returned"
        /\ FlEq(DiffPrincipalPart(FlOfInt(loanArgs.amount.value),
                                   FlOfInt(loanArgs.months.value)), FlOfInt(100000))
        /\ FlRoundsTo(loanOut.first_payment, 1, 112000)
        /\ FlRoundsTo(loanOut.last_payment, 1, 100833)

C10_Witness ==
    /\ DiffExampleRan
    /\ loanOut.status = "returned"
    /\ loanOut.monthly_payment = FlNull
    /\ FlRoundsTo(loanOut.total_payment, 1, 1278000)

DiffRan ==
    loanFn = "calculateLoanMetrics" /\ loanArgs.paymentType = "diff" /\ ValidLoanArgs

\* what the calculator reports for the same inputs with ANNUITY payments
AnnuityTwin == calculateLoanMetrics([loanArgs EXCEPT !.paymentType = "annuity"])

\* C11: for every valid (principal, annual_rate, term) the overpayment
\* reported for DIFFERENTIATED is less than or equal to the one reported for
\* ANNUITY with the same inputs.
C11_DiffOverpaymentBelowAnnuity ==
    DiffRan => RatLeq(RatOfFl(loanOut.overpayment), RatOfFl(AnnuityTwin.overpayment))

\* C12: in the DIFFERENTIATED loop the remaining balance never grows from
\* period to period, is never negative and is 0 after the final period.
C12_BalanceReachesZero ==
    DiffRan =>
        LET n == loanArgs.months.value
            balance(k) == IF k = 0 THEN RatOfInt(loanArgs.amount.value)
                          ELSE RatOfFl(loanRemains[k])
        IN  /\ Len(loanRemains) = n
            /\ \A k \in 1..n :
                  /\ RatLeq(balance(k), balance(k - 1))
                  /\ balance(k).sign >= 0
            /\ balance(n).sign = 0

\* C13: calculateLoanMetrics rejects principal <= 0, rate < 0 and term <= 0,
\* each with its own error, checking the principal first, then the rate,
\* then the term; a call that fails returns no result.
C13_ValidationOrder ==
    (loanFn = "calculateLoanMetrics") =>
        LET amount == loanArgs.amount
            rate == loanArgs.annualRate
            months == loanArgs.months
            principalOk == amount.kind = "num" /\ amount.value > 0
            rateOk == rate.kind = "num" /\ rate.value >= 0
        IN  /\ (amount.kind = "num" /\ amount.value <= 0)
                  => (loanOut.status = "thrown" /\ loanOut.error = "principal")
            /\ (principalOk /\ rate.kind = "num" /\ rate.value < 0)
                  => (loanOut.status = "thrown" /\ loanOut.error = "rate")
            /\ (principalOk /\ rateOk /\ months.kind = "num" /\ months.value <= 0)
                  => (loanOut.status = "thrown" /\ loanOut.error = "term")
            /\ loanOut.status = "thrown"
                  => /\ loanOut.error \in {"principal", "rate", "term"}
                     /\ loanOut.monthly_payment = FlNull
                     /\ loanOut.first_payment = FlNull
                     /\ loanOut.last_payment = FlNull
                     /\ loanOut.total_payment = FlNull
                     /\ loanOut.overpayment = FlNull
                     /\ loanRemains = <<>>

C13_Witness ==
    /\ loanFn = "calculateLoanMetrics"
    /\ loanArgs.amount = Num(0)
    /\ loanArgs.annualRate = Num(0 - 1)
    /\ loanArgs.months = Num(0)
    /\ loanOut.status = "thrown"
    /\ loanOut.error = "principal"

(***************************************************************************)
(* Create-loan form.                                                       *)
(***************************************************************************)
SaveStep == uiOp = "none" /\ uiOp' = "loanCreateSave"

\* the conditions of the claim on the values of the form: the amounts are
\* numbers, principal > 0, current_principal <= principal, the rate is a
\* number in [0,100], the term an integer in [1,600], first_payment_date of
\* the form YYYY-MM-DD and issue_date empty or of the form and before it
FormChecksPass(form) ==
    /\ MoneyError(form.principal) = "ok"
    /\ MoneyNumber(form.principal) > 0
    /\ MoneyError(form.currentPrincipal) = "ok"
    /\ MoneyNumber(form.currentPrincipal) <= MoneyNumber(form.principal)
    /\ RateNumber(form.annualRate).finite
    /\ RateNumber(form.annualRate).value \in 0..10000
    /\ TermNumber(form.termMonths).integer
    /\ TermNumber(form.termMonths).value \in 1..600
    /\ IsYmdForm(form.firstPaymentDate)
    /\ \/ form.issueDate = EmptyText
       \/ IsYmdForm(form.issueDate) /\ form.issueDate < form.firstPaymentDate

\* C14: the save handler of the create-loan form sends the CreateLoan
\* request only when principal > 0, current_principal <= principal,
\* annual_rate is in [0,100], term_months is an integer in [1,600],
\* first_payment_date is of the form YYYY-MM-DD and issue_date, when given,
\* is of the form and strictly before first_payment_date; when a check fails
\* it sends no request, leaves the loan list, the active loan and the loan
\* view as they are and shows the error.
C14_CreateValidatedFirst ==
    [][SaveStep =>
          /\ (\E k \in 1..Len(sent') : sent'[k].type = "CreateLoan")
                => FormChecksPass(loanForm)
          /\ ~FormChecksPass(loanForm)
                => /\ sent' = <<>>
                   /\ loans' = loans
                   /\ activeLoanId' = activeLoanId
                   /\ activeLoan' = activeLoan
                   /\ activeLoanSummary' = activeLoanSummary
                   /\ loanView' = loanView
                   /\ loanCreateError' # ""]_vars

C14_Witness ==
    /\ uiOp = "loanCreateSave"
    /\ loanForm.issueDate = loanForm.firstPaymentDate
    /\ loanCreateError = "first-not-after-issue"
    /\ sent = <<>>
    /\ loans = <<1>>
    /\ activeLoanId = 1
    /\ loanView = "create"

\* the rate_periods of a CreateLoan request are sorted, follow each other
\* day by day, have rates in [0,100] and cover the loan from
\* first_payment_date to add_months(first_payment_date, term_months - 1)
RatePeriodsValidated(request) ==
    LET p == request.rate_periods
        loanEnd == CalendarAddMonths(request.first_payment_date, request.term_months - 1)
    IN  /\ Len(p) >= 1
        /\ \A i \in 1..(Len(p) - 1) :
              /\ p[i].start_date <= p[i + 1].start_date
              /\ CalendarNextDay(p[i].end_date) = p[i + 1].start_date
        /\ \A i \in 1..Len(p) : p[i].annual_rate \in 0..10000
        /\ p[1].start_date <= request.first_payment_date
        /\ p[Len(p)].end_date >= loanEnd

\* C15: the rate_periods carried by any CreateLoan request are sorted,
\* contiguous (no gaps, no overlaps), have rates in [0,100] and cover the
\* loan from first_payment_date to add_months(first_payment_date,
\* term_months - 1), whatever rows the form holds.
C15_RatePeriodsValidated ==
    \A k \in 1..Len(sent) :
        sent[k].type = "CreateLoan" => RatePeriodsValidated(sent[k])

(***************************************************************************)
(* Loan card: commits.                                                     *)
(***************************************************************************)
SamePayment(e, f) ==
    /\ e.date = f.date
    /\ e.amount = f.amount
    /\ e.mode = f.mode
    /\ e.strategy = f.strategy

\* the commit requests among the requests of the handler that ran last
CommitsSent == {k \in 1..Len(sent) : sent[k].type = "CommitExtraPayment"}

\* C16: a committed extra payment is applied at most once under client
\* retries: a retry for the same loan, date, amount, mode and strategy carries
\* the key of the first attempt (a key the store has seen once the payment is
\* stored), so however often the save is repeated the store holds one
\* EXTRA_PAYMENT event per payment and the version counts one bump per event.
C16_RetriesApplyOnce ==
    /\ \A i, j \in 1..Len(storedEvents) :
          SamePayment(storedEvents[i], storedEvents[j]) => i = j
    /\ storedVersion = Len(storedEvents)
    /\ \A k \in CommitsSent :
          (\E i \in 1..Len(storedEvents) : SamePayment(storedEvents[i], sent[k]))
              => sent[k].key \in storedKeys

C16_Witness ==
    /\ requestOutcome.status = "replayed"
    /\ CommitsSent # {}
    /\ Len(storedEvents) = 1
    /\ storedVersion = 1

\* the schedule version the client had shown when it sent its last commit
\* was not the current one any more
StaleCommit ==
    /\ requestOutcome.status \notin {"none", "lost"}
    /\ requestOutcome.against # NoVersion
    /\ requestOutcome.against # requestOutcome.current

\* C17: a commit issued against a schedule version that is no longer current
\* is rejected with ConcurrencyConflictError and appends no event (so of two
\* commits prepared against the same version at most one is applied without
\* a refetch).
C17_StaleCommitRejected ==
    StaleCommit => requestOutcome.status = "ConcurrencyConflictError"

(***************************************************************************)
(* Loan card: previews.                                                    *)
(***************************************************************************)
\* a step of previewExtraPayment or runScenarioPreset
PreviewStep == uiOp' \in Presets \cup {"loanExtraPreview"} /\ today' = today

\* C18: previewExtraPayment and runScenarioPreset only ever issue the
\* scenarios/preview request, never the events/extra-payment request, and a
\* preview leaves the persisted event log, the schedule version and the
\* client's activeLoanId, activeLoan and activeLoanSummary unchanged.
C18_PreviewReadOnly ==
    [][PreviewStep =>
          /\ \A k \in 1..Len(sent') : sent'[k].type = "PreviewScenario"
          /\ storedEvents' = storedEvents
          /\ storedVersion' = storedVersion
          /\ activeLoanId' = activeLoanId
          /\ activeLoan' = activeLoan
          /\ activeLoanSummary' = activeLoanSummary]_vars

C18_Witness ==
    /\ uiOp \in Presets
    /\ requestOutcome.status = "ok"
    /\ loanScenarioResult.status = "shown"
    /\ loanExtraPreview.status = "shown"
    /\ storedEvents # <<>>

\* a preview step whose request was answered
PreviewAnswered ==
    /\ PreviewStep
    /\ sent' # <<>>
    /\ requestOutcome'.status \notin {"none", "lost"}

\* the step previews what the kept run previewed: the same button, the same
\* form values, the same loan in the same state
SameInputsAsKept ==
    /\ keptPreview # NoPreview
    /\ keptPreview.kind = (IF uiOp' = "loanExtraPreview" THEN "form" ELSE uiOp')
    /\ keptPreview.form = loanExtraForm
    /\ keptPreview.loan = activeLoan
    /\ keptPreview.version = storedVersion

\* the events the step sent and what it showed or toasted are those of the
\* kept run
SameRunAsKept ==
    /\ sent'[1].events = keptPreview.events
    /\ keptPreview.output =
          (IF requestOutcome'.status # "ok" THEN PreviewError(requestOutcome'.status)
           ELSE IF uiOp' = "loanExtraPreview" THEN loanExtraPreview'
           ELSE loanScenarioResult')

\* the claim as stated: two preview runs with identical inputs (same loan,
\* same form values or same preset) produce identical event lists and
\* identical output, whatever happened in between
C19_AsClaimed ==
    [][(PreviewAnswered /\ SameInputsAsKept) => SameRunAsKept]_vars

\* C19: two preview runs with identical inputs (same loan, same form values
\* or same preset, and for a preset run with an empty date field the same
\* current date) produce identical event lists and identical output,
\* independent of what was previewed in between.
C19_PreviewIdempotent ==
    [][(/\ PreviewAnswered
        /\ SameInputsAsKept
        /\ \/ keptPreview.kind = "form"
           \/ loanExtraForm.date # EmptyText
           \/ keptPreview.clock = today) => SameRunAsKept]_vars

C19_Witness ==
    /\ keptPreview.kind \in Presets
    /\ uiOp = keptPreview.kind
    /\ loanView = "scenario"
    /\ loanScenarioResult.status = "shown"
    /\ loanExtraPreview.status = "shown"
    /\ keptPreview.form = loanExtraForm
    /\ keptPreview.clock # today
    /\ sent # <<>>
    /\ sent[1].events = keptPreview.events
    /\ loanScenarioResult = keptPreview.output

(***************************************************************************)
(* Scenario engine.                                                        *)
(***************************************************************************)
\* the engine previewed one extra payment of a positive amount with
\* REDUCE_TERM and accepted it (its date within the schedule, its amount
\* below the balance)
ReduceTermApplied ==
    /\ engineFn = "PreviewScenario"
    /\ Len(engineEvents) = 1
    /\ engineEvents[1].type = "EXTRA_PAYMENT"
    /\ engineEvents[1].amount > 0
    /\ engineEvents[1].strategy = "REDUCE_TERM"
    /\ engineOut.status = "ok"

\* C20: any EXTRA_PAYMENT with amount > 0 and strategy REDUCE_TERM applied
\* before payoff yields months_diff >= 0 and interest_saving >= 0 relative to
\* the baseline schedule.
C20_ReduceTermNeverWorse ==
    ReduceTermApplied => engineOut.months_diff >= 0 /\ engineOut.interest_saving >= 0

C20_Witness ==
    /\ ReduceTermApplied
    /\ engineOut.months_diff > 0
    /\ engineOut.interest_saving > 0
    /\ engineLog # <<>>

(***************************************************************************)
(* Amounts of extra payments.                                              *)
(***************************************************************************)
\* the texts of the amount field that are no positive number
BadAmountTexts == {"", "0", "-5", "abc"}

\* the amounts of the EXTRA_PAYMENT events a request carries
RequestAmounts(request) ==
    IF request.type = "CommitExtraPayment" THEN {request.amount}
    ELSE IF request.type = "PreviewScenario"
    THEN {request.events[j].amount :
             j \in {i \in 1..Len(request.events) : request.events[i].type = "EXTRA_PAYMENT"}}
    ELSE {}

\* C21: an extra payment whose amount is not a positive number is rejected
\* before any preview or commit request is sent: after a preview or a save
\* with such an amount in the form no request has been sent, no request
\* carries an EXTRA_PAYMENT with amount <= 0 and none is stored.
C21_BadAmountNeverSent ==
    /\ (/\ uiOp \in {"loanExtraPreview", "loanExtraSave"}
        /\ loanExtraForm.amount \in BadAmountTexts) => sent = <<>>
    /\ \A j \in 1..Len(sent) : \A amount \in RequestAmounts(sent[j]) : amount > 0
    /\ \A j \in 1..Len(storedEvents) : storedEvents[j].amount > 0

C21_Witness ==
    /\ uiOp = "loanExtraSave"
    /\ loanView = "extra"
    /\ loanExtraForm.amount = "-5"
    /\ sent = <<>>

(***************************************************************************)
(* Paging of the schedule.                                                 *)
(***************************************************************************)
\* C22: every GetSchedule request issued by loadLoanSchedule has page >= 1
\* and page_size within [10,120], whatever the page and page-size inputs
\* hold.
C22_PageWithinRange ==
    uiOp \in {"loanActionSchedule", "loanScheduleApply"} =>
        \A j \in 1..Len(sent) : sent[j].type = "GetSchedule" => InPageRange(sent[j])

SavedStep ==
    /\ uiOp' = "loanExtraSave"
    /\ loanView = "extra"
    /\ loanView' = "card"
    /\ sent' # <<>>

\* C24: two separate extra payments the user makes on purpose with the same
\* loan, date, amount, mode and strategy are both persisted (distinct
\* submissions carry distinct idempotency keys): with every answer
\* delivered, each save that is reported as saved has added one event to the
\* stored log under a key the store had not seen.
C24_RepeatedPaymentPersisted ==
    [][SavedStep =>
          /\ Len(storedEvents') = Len(storedEvents) + 1
          /\ sent'[1].key \notin storedKeys]_vars

(***************************************************************************)
(* Loans tab: the card and the active loan.                                *)
(***************************************************************************)
\* C25: whenever the loan card is displayed, the loan it renders and the
\* stored activeLoan and activeLoanSummary are those of activeLoanId, also
\* when openLoanCard is started for two different loans and their answers
\* arrive in either order.
C25_CardShowsActiveLoan ==
    "card" \in shownCards =>
        /\ renderedLoan = activeLoanId
        /\ activeLoan.id = activeLoanId
        /\ activeLoanSummary.loan_id = activeLoanId

\* C30: a card of a loan sub-view (create, card, schedule, extra, scenario,
\* tips) is visible only while the active budget tab is "loans", whatever
\* the interleaving of tab switches with openLoanCard calls under way.
C30_LoanCardsOnLoansTab ==
    shownCards \cap LoanSubViewCards # {} => activeTab = "loans"

(***************************************************************************)
(* The global loader.                                                      *)
(***************************************************************************)
\* the api and apiLoanCreate calls without skipLoader that have started and
\* not settled
LoadingCalls == {c \in calls : ~c.skipLoader}

\* C26: state.loadingCount is never negative and equals the number of api()
\* and apiLoanCreate calls without skipLoader that have started and have not
\* settled, whether they end by returning or by throwing.
C26_CountIsCallsUnderWay ==
    /\ loadingCount >= 0
    /\ loadingCount = Cardinality(LoadingCalls)

C26_Witness ==
    /\ loadingCount = 2
    /\ Cardinality(calls) = 3
    /\ \E c \in LoadingCalls : c.fn = "apiLoanCreate"
    /\ HideTimers(timers) # {}

\* C27: once every request has settled and the pending timers have fired the
\* loader is hidden: it is never left visible with loadingCount = 0 and no
\* hide timer pending.
C27_LoaderNotLeftVisible ==
    (loadingCount = 0 /\ HideTimers(timers) = {}) => ~loaderShown

C27_Witness ==
    /\ loadingVisibleAt # 0
    /\ ~loaderShown
    /\ loadingCount = 0
    /\ calls = {}
    /\ timers = {}

(***************************************************************************)
(* Search boxes.                                                           *)
(***************************************************************************)
\* C28: the list a search box shows is the answer to the query it issued
\* most recently: the answer to an earlier query never overwrites that of a
\* later one and never comes back after the box was cleared.
C28_ListOfLatestQuery ==
    searchResult.kind = "list" => searchResult.q = searchIssued

(***************************************************************************)
(* The onboarding wizard.                                                  *)
(***************************************************************************)
\* a step in which a Next handler clicked at displayed step s ends: at once
\* (no await on its way), or after the request it waited for
NextEndsAtOnce(s) ==
    /\ uiOp' \in {"budgetNext", "budgetNextToast"}
    /\ nextCalls' = nextCalls
    /\ budgetStep = s

NextEndsLater(s) ==
    \E i \in 1..Len(nextCalls) :
       /\ nextCalls[i].at = s
       /\ nextCalls' = Without(nextCalls, i)

\* the handlers that have sent onboarding_completed
CompletingCalls == {i \in 1..Len(nextCalls) : nextCalls[i].waits \in {"onboarding", "dashboard"}}

\* C29: a Next click made while step s < 5 is displayed advances the wizard
\* to exactly s + 1, or leaves it at s when the input does not parse or the
\* request fails, and onboarding_completed is sent only for a Next click made
\* while step 5 is displayed, under any interleaving of Back, Skip and
\* repeated Next with requests under way.
C29_NextAdvancesByOne ==
    [][/\ \A s \in 1..4 :
             (NextEndsAtOnce(s) \/ NextEndsLater(s))
                => budgetStep' = (IF uiOp' = "budgetNextToast" THEN s ELSE s + 1)
       /\ \A i \in CompletingCalls' : nextCalls'[i].at = 5]_vars

====
